---------------------------- MODULE Spec2Model ----------------------------
(***************************************************************************)
(* Model of the synergy-label pipeline of AgentOrchestrationFramework:     *)
(* the counting store (src/src/hash.c), the pair-key codec (hash.c) and    *)
(* the statistics aggregator / synergy calculator (src/src/labels.c).      *)
(*                                                                         *)
(* Representation choices                                                  *)
(*  - A uint64_t is a tuple <<w3, w2, w1, w0>> of four 16-bit words, most  *)
(*    significant first, so that every 64-bit value (the two sentinel keys *)
(*    and identifiers above 2^32 included) is a value of the model.        *)
(*  - The counters n, w, total_games, total_wins are naturals; they stay   *)
(*    far below 2^63 in every run explored, so the C casts to int64_t and  *)
(*    back do not change them.                                             *)
(*  - HashMap.entries is a function whose domain holds the slots that are  *)
(*    not HASH_EMPTY_KEY; a slot outside the domain is an empty slot (the  *)
(*    state calloc + the fill loop of hashmap_init / hashmap_resize leave).*)
(*  - hash_u64 is computed modulo 2^22; the low bits of a product modulo   *)
(*    2^64 depend only on the low bits of its factors, so `hash & mask` is *)
(*    exact for every capacity up to 2^22.                                 *)
(***************************************************************************)
EXTENDS Integers, Sequences, FiniteSets, TLC

(***************************************************************************)
(* 64-bit values                                                           *)
(***************************************************************************)
\* The uint64_t with value n, for 0 <= n < 2^16.
U(n) == <<0, 0, 0, n>>

\* a > b on uint64_t.
RECURSIVE GtFrom(_, _, _)
GtFrom(a, b, i) ==
    IF i > 4 THEN FALSE
    ELSE IF a[i] # b[i] THEN a[i] > b[i]
    ELSE GtFrom(a, b, i + 1)

Gt64(a, b) == GtFrom(a, b, 1)

\* (key >> (i * 8)) & 0xFF, i in 0..7.
KeyByte(key, i) ==
    LET w == key[4 - (i \div 2)]
    IN  IF i % 2 = 0 THEN w % 256 ELSE w \div 256

\* x ^ y on naturals.
RECURSIVE BitXor(_, _)
BitXor(x, y) ==
    IF x = 0 THEN y
    ELSE IF y = 0 THEN x
    ELSE 2 * BitXor(x \div 2, y \div 2) + (((x % 2) + (y % 2)) % 2)

\* x & y on naturals.
RECURSIVE BitAnd(_, _)
BitAnd(x, y) ==
    IF x = 0 \/ y = 0 THEN 0
    ELSE 2 * BitAnd(x \div 2, y \div 2) + ((x % 2) * (y % 2))

(***************************************************************************)
(* The keys and identifiers the runs draw from                             *)
(***************************************************************************)
HASH_EMPTY_KEY == <<65535, 65535, 65535, 65535>>
HASH_TOMBSTONE == <<65535, 65535, 65535, 65534>>

\* The keys of SpecMap in the order in which they first enter the store.
\* Home slots at capacity 16: 1->4, 3->6, 2^32+2->6, 2->7, 10->15, 2^64-3->15,
\* 5->0, 4->1, 12->9, 2^48+5->9, 2^32-1->1, 6->3, 7->2: the thirteenth put
\* finds twelve live entries and grows the table.
MapKeyOrder ==
    << U(1), U(3), <<0, 1, 0, 2>>, U(2), U(10), <<65535, 65535, 65535, 65533>>,
       U(5), U(4), U(12), <<1, 0, 0, 5>>, <<0, 0, 65535, 65535>>, U(6), U(7) >>

MapKeys == {MapKeyOrder[i] : i \in 1..Len(MapKeyOrder)}

\* The keys hashmap_increment is called with (the other keys are only put):
\* the first key, one behind a collision, one that wraps past the last slot,
\* one three probes from home, the one whose insertion grows the table, and
\* the two sentinels.
IncrementedKeys ==
    {U(1), <<0, 1, 0, 2>>, <<65535, 65535, 65535, 65533>>, <<0, 0, 65535, 65535>>, U(7)}
SentinelKeys == {HASH_EMPTY_KEY, HASH_TOMBSTONE}
AllKeys == MapKeys \cup SentinelKeys

\* The card identifiers of the label runs: 1 and 2^32-1, which fit in 32
\* bits; 2^32+1, with the low 32 bits of 1; and UINT64_MAX, with the low 32
\* bits of 2^32-1 (what strtoull returns for an overlong number; equal to
\* HASH_EMPTY_KEY).  pair_key gives one key for {1, 2^32-1} and
\* {1, UINT64_MAX}, the key of (1, 1) for {1, 2^32+1}, and HASH_EMPTY_KEY for
\* {2^32-1, UINT64_MAX}.
ID_ONE == U(1)
ID_ONE_HIGH == <<0, 1, 0, 1>>
ID_LOW_MAX == <<0, 0, 65535, 65535>>
ID_MAX == HASH_EMPTY_KEY
LabelIds == {ID_ONE, ID_ONE_HIGH, ID_LOW_MAX, ID_MAX}

(***************************************************************************)
(* hash.c : the pair-key codec                                             *)
(***************************************************************************)
\* Variant of pair_key without the a > b swap.
pair_key_no_swap(a, b) == <<a[3], a[4], b[3], b[4]>>

\* Variant of pair_key that orders the identifiers after truncating them.
pair_key_order_truncated(a, b) ==
    LET a32 == <<0, 0, a[3], a[4]>>
        b32 == <<0, 0, b[3], b[4]>>
        lo == IF Gt64(a32, b32) THEN b32 ELSE a32
        hi == IF Gt64(a32, b32) THEN a32 ELSE b32
    IN  <<lo[3], lo[4], hi[3], hi[4]>>

pair_key(a, b) ==
    LET lo == IF Gt64(a, b) THEN b ELSE a
        hi == IF Gt64(a, b) THEN a ELSE b
    IN  <<lo[3], lo[4], hi[3], hi[4]>>

pair_decode(key) ==
    [a |-> <<0, 0, key[1], key[2]>>, b |-> <<0, 0, key[3], key[4]>>]

\* Every key pair_key can give for two identifiers of Spec.
LabelPairKeys == {pair_key(a, b) : a, b \in LabelIds}

(***************************************************************************)
(* hash.h / hash.c : the counting store                                    *)
(***************************************************************************)
NULL == 0 - 1
SIZE_MAX == 0 - 1

\* hash_u64 keeps the low 22 bits of the 64-bit FNV-1a state.
HashMod == 2 ^ 22
\* 14695981039346656037 mod 2^22 and 1099511628211 mod 2^22.
FNV_OFFSET_LOW == 2237221
FNV_PRIME_LOW == 435

RECURSIVE hash_loop(_, _, _)
hash_loop(hash, key, i) ==
    IF i >= 8 THEN hash
    ELSE hash_loop((BitXor(hash, KeyByte(key, i)) * FNV_PRIME_LOW) % HashMod,
                   key, i + 1)

\* hash_u64 of the keys the runs use, computed once.
HashMemo ==
    [k \in AllKeys \cup LabelIds \cup LabelPairKeys |-> hash_loop(FNV_OFFSET_LOW, k, 0)]

hash_u64(key) ==
    IF key \in DOMAIN HashMemo THEN HashMemo[key]
    ELSE hash_loop(FNV_OFFSET_LOW, key, 0)

IsSentinel(key) == key = HASH_EMPTY_KEY \/ key = HASH_TOMBSTONE

NoEntries == [i \in {} |-> 0]

\* entries[i].key
KeyAt(map, i) ==
    IF i \in DOMAIN map.entries THEN map.entries[i].key ELSE HASH_EMPTY_KEY

RECURSIVE init_cap(_, _)
init_cap(cap, initial_capacity) ==
    IF cap < initial_capacity THEN init_cap(cap * 2, initial_capacity) ELSE cap

hashmap_init(initial_capacity) ==
    [entries |-> NoEntries,
     capacity |-> init_cap(16, initial_capacity),
     size |-> 0,
     tombstones |-> 0]

\* Variant of get_probe that looks at the home slot only (no linear probing).
get_probe_home_only(map, key, idx, i) ==
    LET probe == BitAnd(idx + i, map.capacity - 1)
    IN  IF KeyAt(map, probe) = key THEN probe ELSE NULL

\* The probe loop of hashmap_get: the slot holding key, or NULL.
RECURSIVE get_probe(_, _, _, _)
get_probe(map, key, idx, i) ==
    IF i >= map.capacity THEN NULL
    ELSE LET probe == BitAnd(idx + i, map.capacity - 1)
         IN  IF KeyAt(map, probe) = key THEN probe
             ELSE IF KeyAt(map, probe) = HASH_EMPTY_KEY THEN NULL
             ELSE get_probe(map, key, idx, i + 1)

hashmap_get(map, key) ==
    IF IsSentinel(key) THEN NULL
    ELSE get_probe(map, key, BitAnd(hash_u64(key), map.capacity - 1), 0)

\* Variant of put_probe that stores a new key without counting it in size.
RECURSIVE put_probe_size_kept(_, _, _, _, _)
put_probe_size_kept(map, key, idx, i, first_tombstone) ==
    IF i >= map.capacity THEN [map |-> map, entry |-> NULL]
    ELSE
      LET probe == BitAnd(idx + i, map.capacity - 1)
      IN  IF KeyAt(map, probe) = key THEN [map |-> map, entry |-> probe]
          ELSE IF KeyAt(map, probe) = HASH_EMPTY_KEY
          THEN [map |-> [map EXCEPT
                           !.entries = (probe :> [key |-> key, n |-> 0, w |-> 0])
                                       @@ map.entries],
                entry |-> probe]
          ELSE put_probe_size_kept(map, key, idx, i + 1, first_tombstone)

\* The probe loop of hashmap_put: [map, entry], entry the slot returned.
RECURSIVE put_probe(_, _, _, _, _)
put_probe(map, key, idx, i, first_tombstone) ==
    IF i >= map.capacity THEN [map |-> map, entry |-> NULL]
    ELSE
      LET probe == BitAnd(idx + i, map.capacity - 1)
          ft == IF KeyAt(map, probe) = HASH_TOMBSTONE /\ first_tombstone = SIZE_MAX
                THEN probe ELSE first_tombstone
      IN  IF KeyAt(map, probe) = key THEN [map |-> map, entry |-> probe]
          ELSE IF KeyAt(map, probe) = HASH_EMPTY_KEY
          THEN LET slot == IF ft # SIZE_MAX THEN ft ELSE probe
                   tomb == IF ft # SIZE_MAX THEN map.tombstones - 1
                           ELSE map.tombstones
               IN  [map |-> [map EXCEPT
                               !.entries = (slot :> [key |-> key, n |-> 0, w |-> 0])
                                           @@ map.entries,
                               !.tombstones = tomb,
                               !.size = map.size + 1],
                    entry |-> slot]
          ELSE put_probe(map, key, idx, i + 1, ft)

\* entry->n = n; entry->w = w through the pointer hashmap_put returned.
SetEntry(map, entry, n, w) ==
    [map EXCEPT !.entries[entry].n = n, !.entries[entry].w = w]

RECURSIVE hashmap_put(_, _, _)
RECURSIVE reinsert(_, _, _)

\* Variant of reinsert that re-creates the keys but forgets to copy n and w.
RECURSIVE reinsert_no_copy(_, _, _)
reinsert_no_copy(map, old, i) ==
    IF i >= old.capacity THEN map
    ELSE IF KeyAt(old, i) # HASH_EMPTY_KEY /\ KeyAt(old, i) # HASH_TOMBSTONE
    THEN LET r == hashmap_put(map, old.entries[i].key, TRUE)
         IN  IF r.entry = NULL
             THEN reinsert_no_copy(r.map, old, i + 1)
             ELSE reinsert_no_copy(r.map, old, i + 1)
    ELSE reinsert_no_copy(map, old, i + 1)

\* The reinsertion loop of hashmap_resize over the old array.
reinsert(map, old, i) ==
    IF i >= old.capacity THEN map
    ELSE IF KeyAt(old, i) # HASH_EMPTY_KEY /\ KeyAt(old, i) # HASH_TOMBSTONE
    THEN LET r == hashmap_put(map, old.entries[i].key, TRUE)
         IN  IF r.entry = NULL
             THEN reinsert(r.map, old, i + 1)   \* store through NULL: no entry written
             ELSE reinsert(SetEntry(r.map, r.entry,
                                    old.entries[i].n, old.entries[i].w),
                           old, i + 1)
    ELSE reinsert(map, old, i + 1)

\* alloc_ok: whether calloc returns memory. [rc, map].
\* Variant of hashmap_resize without the map->entries = old_entries of the
\* failure branch: the map keeps the NULL array calloc returned.
hashmap_resize_no_restore(map, alloc_ok) ==
    IF ~alloc_ok THEN [rc |-> 0 - 1,
                       map |-> [entries |-> NoEntries, capacity |-> map.capacity,
                                size |-> map.size, tombstones |-> map.tombstones]]
    ELSE [rc |-> 0,
          map |-> reinsert([entries |-> NoEntries,
                            capacity |-> map.capacity * 2,
                            size |-> 0,
                            tombstones |-> 0], map, 0)]

\* Variant of hashmap_resize that allocates the new array at the old capacity.
hashmap_resize_same_capacity(map, alloc_ok) ==
    IF ~alloc_ok THEN [rc |-> 0 - 1, map |-> map]
    ELSE [rc |-> 0,
          map |-> reinsert([entries |-> NoEntries,
                            capacity |-> map.capacity,
                            size |-> 0,
                            tombstones |-> 0], map, 0)]

hashmap_resize(map, alloc_ok) ==
    IF ~alloc_ok THEN [rc |-> 0 - 1, map |-> map]
    ELSE [rc |-> 0,
          map |-> reinsert([entries |-> NoEntries,
                            capacity |-> map.capacity * 2,
                            size |-> 0,
                            tombstones |-> 0], map, 0)]

\* Variant of the load test that lets the table fill to eighty per cent.
NeedsResize_at_eighty(map) == (map.size + map.tombstones) * 10 > map.capacity * 8

NeedsResize(map) == (map.size + map.tombstones) * 10 > map.capacity * 7

\* Variant of hashmap_put that refuses HASH_EMPTY_KEY only.
hashmap_put_tombstone_key(map, key, alloc_ok) ==
    IF key = HASH_EMPTY_KEY THEN [map |-> map, entry |-> NULL]
    ELSE LET r == IF NeedsResize(map) THEN hashmap_resize(map, alloc_ok)
                  ELSE [rc |-> 0, map |-> map]
         IN  IF r.rc # 0 THEN [map |-> r.map, entry |-> NULL]
             ELSE put_probe(r.map, key,
                            BitAnd(hash_u64(key), r.map.capacity - 1), 0, SIZE_MAX)

hashmap_put(map, key, alloc_ok) ==
    IF IsSentinel(key) THEN [map |-> map, entry |-> NULL]
    ELSE LET r == IF NeedsResize(map) THEN hashmap_resize(map, alloc_ok)
                  ELSE [rc |-> 0, map |-> map]
         IN  IF r.rc # 0 THEN [map |-> r.map, entry |-> NULL]
             ELSE put_probe(r.map, key,
                            BitAnd(hash_u64(key), r.map.capacity - 1), 0, SIZE_MAX)

\* Variant of hashmap_increment that counts a win in w only (n++ in the else).
hashmap_increment_win_only(map, key, win, alloc_ok) ==
    LET r == hashmap_put(map, key, alloc_ok)
    IN  IF r.entry # NULL
        THEN SetEntry(r.map, r.entry,
                      r.map.entries[r.entry].n + (IF win # 0 THEN 0 ELSE 1),
                      r.map.entries[r.entry].w + (IF win # 0 THEN 1 ELSE 0))
        ELSE r.map

\* Variant of hashmap_increment that stores the last outcome in w (w = win).
hashmap_increment_last_win(map, key, win, alloc_ok) ==
    LET r == hashmap_put(map, key, alloc_ok)
    IN  IF r.entry # NULL
        THEN SetEntry(r.map, r.entry,
                      r.map.entries[r.entry].n + 1,
                      IF win # 0 THEN 1 ELSE 0)
        ELSE r.map

hashmap_increment(map, key, win, alloc_ok) ==
    LET r == hashmap_put(map, key, alloc_ok)
    IN  IF r.entry # NULL
        THEN SetEntry(r.map, r.entry,
                      r.map.entries[r.entry].n + 1,
                      r.map.entries[r.entry].w + (IF win # 0 THEN 1 ELSE 0))
        ELSE r.map

hashmap_size(map) == map.size

\* The (key, n, w) triples hashmap_iterate passes to its callback.
hashmap_iterate(map) ==
    {map.entries[i] : i \in {j \in DOMAIN map.entries :
                               map.entries[j].key # HASH_TOMBSTONE}}

(***************************************************************************)
(* labels.h / labels.c : statistics aggregator and synergy calculator      *)
(***************************************************************************)
\* MIN_BOTH_PRESENT is 500 and MAX_GAME_CARDS is 100 in labels.h; the model
\* scales both down so that a pair can reach the threshold, and a game can
\* exceed the buffer, within a few games of a few cards.
MIN_BOTH_PRESENT == 2
MAX_GAME_CARDS == 2

CARD_STATS_CAPACITY == 4096
PAIR_STATS_CAPACITY == 65536

labels_init ==
    [total_games |-> 0,
     total_wins |-> 0,
     card_stats |-> hashmap_init(CARD_STATS_CAPACITY),
     pair_stats |-> hashmap_init(PAIR_STATS_CAPACITY)]

\* Variant of dedup_loop that appends every card (the found test dropped).
RECURSIVE dedup_loop_keep_repeats(_, _, _, _)
dedup_loop_keep_repeats(present_cards, count, i, unique) ==
    IF ~(i < count /\ Len(unique) < MAX_GAME_CARDS) THEN unique
    ELSE dedup_loop_keep_repeats(present_cards, count, i + 1,
                                 Append(unique, present_cards[i + 1]))

\* The duplicate-removal loop: unique[0 .. unique_count).
RECURSIVE dedup_loop(_, _, _, _)
dedup_loop(present_cards, count, i, unique) ==
    IF ~(i < count /\ Len(unique) < MAX_GAME_CARDS) THEN unique
    ELSE IF \E j \in 1..Len(unique) : unique[j] = present_cards[i + 1]
    THEN dedup_loop(present_cards, count, i + 1, unique)
    ELSE dedup_loop(present_cards, count, i + 1,
                    Append(unique, present_cards[i + 1]))

\* Variant of card_loop that counts a card only in the games won.
RECURSIVE card_loop_wins_only(_, _, _, _, _)
card_loop_wins_only(stats, unique, i, win, alloc_ok) ==
    IF i > Len(unique) \/ win = 0 THEN stats
    ELSE card_loop_wins_only(hashmap_increment(stats, unique[i], win, alloc_ok),
                             unique, i + 1, win, alloc_ok)

\* The per-card loop.
RECURSIVE card_loop(_, _, _, _, _)
card_loop(stats, unique, i, win, alloc_ok) ==
    IF i > Len(unique) THEN stats
    ELSE card_loop(hashmap_increment(stats, unique[i], win, alloc_ok),
                   unique, i + 1, win, alloc_ok)

\* Variant of pair_loop whose inner loop starts at j = i (self-pairs counted).
RECURSIVE pair_loop_from_i(_, _, _, _, _, _)
pair_loop_from_i(stats, unique, i, j, win, alloc_ok) ==
    IF i > Len(unique) THEN stats
    ELSE IF j > Len(unique)
    THEN pair_loop_from_i(stats, unique, i + 1, i + 1, win, alloc_ok)
    ELSE pair_loop_from_i(hashmap_increment(stats, pair_key(unique[i], unique[j]),
                                            win, alloc_ok),
                          unique, i, j + 1, win, alloc_ok)

\* Variant of pair_loop that counts every pair game as lost.
RECURSIVE pair_loop_as_losses(_, _, _, _, _, _)
pair_loop_as_losses(stats, unique, i, j, win, alloc_ok) ==
    IF i > Len(unique) THEN stats
    ELSE IF j > Len(unique)
    THEN pair_loop_as_losses(stats, unique, i + 1, i + 2, win, alloc_ok)
    ELSE pair_loop_as_losses(hashmap_increment(stats, pair_key(unique[i], unique[j]),
                                               0, alloc_ok),
                             unique, i, j + 1, win, alloc_ok)

\* The pair loops: i over unique, j from i + 1.
RECURSIVE pair_loop(_, _, _, _, _, _)
pair_loop(stats, unique, i, j, win, alloc_ok) ==
    IF i > Len(unique) THEN stats
    ELSE IF j > Len(unique)
    THEN pair_loop(stats, unique, i + 1, i + 2, win, alloc_ok)
    ELSE pair_loop(hashmap_increment(stats, pair_key(unique[i], unique[j]),
                                     win, alloc_ok),
                   unique, i, j + 1, win, alloc_ok)

\* Variant of labels_process_game that returns on an empty item set before
\* it updates the global counts.
labels_process_game_counts_late(ctx, present_cards, count, win, alloc_ok) ==
    IF present_cards.null \/ count <= 0 THEN ctx
    ELSE LET unique == dedup_loop(present_cards.elems, count, 0, <<>>)
         IN  [total_games |-> ctx.total_games + 1,
              total_wins |-> ctx.total_wins + (IF win # 0 THEN 1 ELSE 0),
              card_stats |-> card_loop(ctx.card_stats, unique, 1, win, alloc_ok),
              pair_stats |-> pair_loop(ctx.pair_stats, unique, 1, 2, win, alloc_ok)]

\* present_cards is [null, elems]: a NULL pointer, or the array elems; count is
\* the C int passed with it.
labels_process_game(ctx, present_cards, count, win, alloc_ok) ==
    LET counted == [ctx EXCEPT
                      !.total_games = @ + 1,
                      !.total_wins = @ + (IF win # 0 THEN 1 ELSE 0)]
    IN  IF present_cards.null \/ count <= 0 THEN counted
        ELSE LET unique == dedup_loop(present_cards.elems, count, 0, <<>>)
             IN  [counted EXCEPT
                    !.card_stats = card_loop(@, unique, 1, win, alloc_ok),
                    !.pair_stats = pair_loop(@, unique, 1, 2, win, alloc_ok)]

NoRecord == [written |-> FALSE]

\* Variant of NegativeBucket that tests the n buckets only.
NegativeBucket_n_only(n10, n01, n00, w10, w01, w00) ==
    n10 < 0 \/ n01 < 0 \/ n00 < 0

\* Variant of the negative-bucket test that leaves out n00.
NegativeBucket_without_n00(n10, n01, n00, w10, w01, w00) ==
    n10 < 0 \/ n01 < 0 \/ w10 < 0 \/ w01 < 0 \/ w00 < 0

\* The negative-bucket test.
NegativeBucket(n10, n01, n00, w10, w01, w00) ==
    n10 < 0 \/ n01 < 0 \/ n00 < 0 \/ w10 < 0 \/ w01 < 0 \/ w00 < 0

\* Variant of BelowThreshold with the threshold test dropped.
BelowThreshold_never(n_ab) == FALSE

\* The threshold test.
BelowThreshold(n_ab) == n_ab < MIN_BOTH_PRESENT

\* Variant of labels_compute_pair whose n00 leaves out the + n_ab.
labels_compute_pair_n00_without_pair(ctx, card_a, card_b) ==
    LET fail == [rc |-> 0 - 1, record |-> NoRecord]
        entry_a == hashmap_get(ctx.card_stats, card_a)
        entry_b == hashmap_get(ctx.card_stats, card_b)
        pk == pair_key(card_a, card_b)
        entry_ab == hashmap_get(ctx.pair_stats, pk)
    IN  IF entry_a = NULL THEN fail
        ELSE IF entry_b = NULL THEN fail
        ELSE IF entry_ab = NULL THEN fail
        ELSE
          LET n_a == ctx.card_stats.entries[entry_a].n
              w_a == ctx.card_stats.entries[entry_a].w
              n_b == ctx.card_stats.entries[entry_b].n
              w_b == ctx.card_stats.entries[entry_b].w
              n_ab == ctx.pair_stats.entries[entry_ab].n
              w_ab == ctx.pair_stats.entries[entry_ab].w
              N == ctx.total_games
              W == ctx.total_wins
              n10 == n_a - n_ab
              n01 == n_b - n_ab
              n00 == N - n_a - n_b
              w10 == w_a - w_ab
              w01 == w_b - w_ab
              w00 == W - w_a - w_b + w_ab
              record == [written |-> TRUE,
                         card_a |-> card_a, card_b |-> card_b,
                         n11 |-> n_ab, w11 |-> w_ab,
                         n10 |-> n10, w10 |-> w10,
                         n01 |-> n01, w01 |-> w01,
                         n00 |-> n00, w00 |-> w00]
          IN  IF BelowThreshold(n_ab) THEN fail
              ELSE IF W > N \/ w_a > n_a \/ w_b > n_b \/ w_ab > n_ab THEN fail
              ELSE IF NegativeBucket(n10, n01, n00, w10, w01, w00) THEN fail
              ELSE IF \/ record.n11 + record.n10 + record.n01 + record.n00 # N
                      \/ record.w11 + record.w10 + record.w01 + record.w00 # W
              THEN [rc |-> 0 - 1, record |-> record]
              ELSE [rc |-> 0, record |-> record]

\* [rc, record]: rc = 0 and the record filled, or rc = -1.
labels_compute_pair(ctx, card_a, card_b) ==
    LET fail == [rc |-> 0 - 1, record |-> NoRecord]
        entry_a == hashmap_get(ctx.card_stats, card_a)
        entry_b == hashmap_get(ctx.card_stats, card_b)
        pk == pair_key(card_a, card_b)
        entry_ab == hashmap_get(ctx.pair_stats, pk)
    IN  IF entry_a = NULL THEN fail
        ELSE IF entry_b = NULL THEN fail
        ELSE IF entry_ab = NULL THEN fail
        ELSE
          LET n_a == ctx.card_stats.entries[entry_a].n
              w_a == ctx.card_stats.entries[entry_a].w
              n_b == ctx.card_stats.entries[entry_b].n
              w_b == ctx.card_stats.entries[entry_b].w
              n_ab == ctx.pair_stats.entries[entry_ab].n
              w_ab == ctx.pair_stats.entries[entry_ab].w
              N == ctx.total_games
              W == ctx.total_wins
              n10 == n_a - n_ab
              n01 == n_b - n_ab
              n00 == N - n_a - n_b + n_ab
              w10 == w_a - w_ab
              w01 == w_b - w_ab
              w00 == W - w_a - w_b + w_ab
              record == [written |-> TRUE,
                         card_a |-> card_a, card_b |-> card_b,
                         n11 |-> n_ab, w11 |-> w_ab,
                         n10 |-> n10, w10 |-> w10,
                         n01 |-> n01, w01 |-> w01,
                         n00 |-> n00, w00 |-> w00]
          IN  IF BelowThreshold(n_ab) THEN fail
              ELSE IF W > N \/ w_a > n_a \/ w_b > n_b \/ w_ab > n_ab THEN fail
              ELSE IF NegativeBucket(n10, n01, n00, w10, w01, w00) THEN fail
              ELSE IF \/ record.n11 + record.n10 + record.n01 + record.n00 # N
                      \/ record.w11 + record.w10 + record.w01 + record.w00 # W
              THEN [rc |-> 0 - 1, record |-> record]
              ELSE [rc |-> 0, record |-> record]

(***************************************************************************)
(* State                                                                   *)
(***************************************************************************)
VARIABLES
    map,        \* SpecMap: a HashMap under test
    calls,      \* SpecMap: per key, the increment calls made (n) and those with win != 0 (w)
    touched,    \* SpecMap: the keys hashmap_put / hashmap_increment were called with
    failed,     \* SpecMap: some grow-and-rehash could not allocate
    pa, pb,     \* SpecPair: the two identifiers
    pkey,       \* SpecPair: what pair_key / pair_decode returned for them
    ctx,        \* Spec: the LabelContext
    played,     \* Spec: the labels_process_game calls made: all, won, with no item set
    result,     \* Spec: the last return of labels_compute_pair, with its arguments
    model,      \* SpecModel: the SynergyModel
    file,       \* SpecModel: the bytes of the model file; SpecFile: the rows of the game file
    out,        \* SpecModel, SpecSmooth: the arguments and the return of the last call
    data,       \* SpecTrain, SpecGrow: the TrainData
    db          \* SpecGrow, SpecFile: the CardDb

mapVars == <<map, calls, touched, failed>>
pairVars == <<pa, pb, pkey>>
labelVars == <<ctx, played, result>>
dataVars == <<data, db>>
trainVars == <<model, file, out, data, db>>
vars ==
    <<map, calls, touched, failed, pa, pb, pkey, ctx, played, result, model, file, out,
      data, db>>

NoCalls == [n |-> 0, w |-> 0]
NoKey == [stage |-> 0]
NoResult == [called |-> FALSE]
NonePlayed == [games |-> 0, wins |-> 0, empty |-> 0]
NoModel ==
    [cards_ptr |-> "unset", cards |-> <<>>, num_cards |-> 0, capacity |-> 0,
     global_bias |-> 0, embed_dim |-> 0]
NoFile == <<>>
NoData == [samples_ptr |-> "unset", samples |-> <<>>, count |-> 0, capacity |-> 0]
NoDb == [cards_ptr |-> "unset", cards |-> <<>>, count |-> 0, capacity |-> 0]
NoOut == [op |-> "none"]

(***************************************************************************)
(* SpecMap: one counting store driven through its public operations        *)
(***************************************************************************)
\* Increment calls made in one run of SpecMap.
MaxIncs == 2

\* initial_capacity arguments of hashmap_init.
InitialCapacities == {0, 16, 17}

RECURSIVE SumN(_, _)
SumN(f, S) ==
    IF S = {} THEN 0
    ELSE LET k == CHOOSE x \in S : TRUE IN f[k].n + SumN(f, S \ {k})

\* A key may be used once every key before it in MapKeyOrder has been.
MayUse(k) ==
    \/ k \in SentinelKeys
    \/ k \in touched
    \/ /\ Cardinality(touched) < Len(MapKeyOrder)
       /\ k = MapKeyOrder[Cardinality(touched) + 1]

\* The outcomes of the calloc in hashmap_resize; it runs only when the table
\* is about to grow.
AllocOutcomes == IF NeedsResize(map) THEN BOOLEAN ELSE {TRUE}

MapInit ==
    /\ \E c \in InitialCapacities : map = hashmap_init(c)
    /\ calls = [k \in MapKeys |-> NoCalls]
    /\ touched = {}
    /\ failed = FALSE
    /\ pa = U(0) /\ pb = U(0) /\ pkey = NoKey
    /\ model = NoModel /\ file = NoFile /\ out = NoOut /\ data = NoData /\ db = NoDb
    /\ ctx = labels_init /\ played = NonePlayed /\ result = NoResult

\* hashmap_put(&map, k)
MapPut(k, alloc_ok) ==
    /\ MayUse(k)
    /\ map' = hashmap_put(map, k, alloc_ok).map
    /\ touched' = IF k \in MapKeys THEN touched \cup {k} ELSE touched
    /\ failed' = (failed \/ (k \in MapKeys /\ NeedsResize(map) /\ ~alloc_ok))
    /\ UNCHANGED <<trainVars, calls, pairVars, labelVars>>

\* hashmap_increment(&map, k, win)
MapIncrement(k, win, alloc_ok) ==
    /\ MayUse(k)
    /\ SumN(calls, MapKeys) < MaxIncs
    /\ map' = hashmap_increment(map, k, win, alloc_ok)
    /\ touched' = IF k \in MapKeys THEN touched \cup {k} ELSE touched
    /\ calls' = IF k \in MapKeys
                THEN [calls EXCEPT ![k] = [n |-> @.n + 1,
                                           w |-> @.w + (IF win # 0 THEN 1 ELSE 0)]]
                ELSE calls
    /\ failed' = (failed \/ (k \in MapKeys /\ NeedsResize(map) /\ ~alloc_ok))
    /\ UNCHANGED <<trainVars, pairVars, labelVars>>

MapNext ==
    \/ \E k \in AllKeys, ok \in AllocOutcomes : MapPut(k, ok)
    \/ \E k \in IncrementedKeys \cup SentinelKeys, win \in {0, 1}, ok \in AllocOutcomes :
           MapIncrement(k, win, ok)

SpecMap == MapInit /\ [][MapNext]_vars

\* The counts hashmap_get finds for k, or NoEntry.
NoEntry == [n |-> 0 - 1, w |-> 0 - 1]
Lookup(m, k) ==
    LET e == hashmap_get(m, k)
    IN  IF e = NULL THEN NoEntry ELSE [n |-> m.entries[e].n, w |-> m.entries[e].w]

\* C1: while every grow-and-rehash could allocate, hashmap_get(k) finds an
\* entry exactly for the non-sentinel keys that were put or incremented, and
\* that entry holds n = the number of increment calls for k and w = the
\* number of those with win != 0.
C1_Refinement ==
    ~failed =>
        \A k \in MapKeys :
            /\ (hashmap_get(map, k) # NULL) <=> (k \in touched)
            /\ k \in touched => Lookup(map, k) = calls[k]

\* C1 witness: the table has grown past its initial 16 slots and a key
\* incremented before the grow is still found with its counts.
C1_Witness ==
    /\ ~failed
    /\ map.capacity = 32
    /\ map.size = 13
    /\ \E k \in touched : calls[k].n = 2 /\ Lookup(map, k) = calls[k]

\* What the C2 scenario gives for key k on store m: upsert then lookup return
\* the same entry, and increment(k, true), increment(k, false) leave an entry
\* for k with count 2 and winCount 1.
UpsertThenLookup(m, k) ==
    LET r == hashmap_put(m, k, TRUE)
    IN  r.entry # NULL /\ hashmap_get(r.map, k) = r.entry

TwoIncrements(m, k) ==
    Lookup(hashmap_increment(hashmap_increment(m, k, 1, TRUE), k, 0, TRUE), k)
        = [n |-> 2, w |-> 1]

\* C2 as stated: for every value of the key type, the two sentinel values
\* included, on a freshly initialised store.
C2_AllKeys ==
    map.size = 0 =>
        \A k \in AllKeys : UpsertThenLookup(map, k) /\ TwoIncrements(map, k)

\* C2 amended: for every key other than HASH_EMPTY_KEY and HASH_TOMBSTONE, on
\* a store that holds no entry for k (a fresh store in particular, but also
\* one about to grow): lookup after upsert returns the entry upsert returned,
\* and increment(k, true) then increment(k, false) leave count 2, winCount 1;
\* for the two sentinels upsert and lookup return no entry.
C2_NonSentinelKeys ==
    /\ \A k \in MapKeys :
           /\ UpsertThenLookup(map, k)
           /\ hashmap_get(map, k) = NULL => TwoIncrements(map, k)
    /\ \A k \in SentinelKeys :
           /\ hashmap_put(map, k, TRUE).entry = NULL
           /\ hashmap_get(hashmap_increment(map, k, 1, TRUE), k) = NULL

\* C2 witness: a fresh store on which increment(k, true) and
\* increment(k, false) ran for a key whose home slot another key holds
\* (2^32+2 behind 3), and lookup finds count 2, winCount 1.
C2_Witness ==
    /\ map.size = 3
    /\ calls[<<0, 1, 0, 2>>] = [n |-> 2, w |-> 1]
    /\ Lookup(map, <<0, 1, 0, 2>>) = [n |-> 2, w |-> 1]
    /\ hashmap_get(map, <<0, 1, 0, 2>>)
         # BitAnd(hash_u64(<<0, 1, 0, 2>>), map.capacity - 1)

\* C3: every live entry has w <= n.
C3_WinsAtMostCount ==
    \A i \in DOMAIN map.entries :
        ~IsSentinel(map.entries[i].key) => map.entries[i].w <= map.entries[i].n

\* C3 witness: after a grow, a live entry counts a win and a loss.
C3_Witness ==
    /\ map.capacity = 32
    /\ \E i \in DOMAIN map.entries : map.entries[i].n = 2 /\ map.entries[i].w = 1

(***************************************************************************)
(* SpecPair: pair_key and pair_decode on pairs of identifiers              *)
(***************************************************************************)
\* 0, 1, 2, 2^32-1, 2^32, 2^32+1, 2^32+2, 2^33+1, 2^63, 2^64-1.
PairIds ==
    {U(0), U(1), U(2), <<0, 0, 65535, 65535>>, <<0, 1, 0, 0>>, <<0, 1, 0, 1>>,
     <<0, 1, 0, 2>>, <<0, 2, 0, 1>>, <<32768, 0, 0, 0>>, HASH_EMPTY_KEY}

PairInit ==
    /\ pa \in PairIds /\ pb \in PairIds /\ pkey = NoKey
    /\ model = NoModel /\ file = NoFile /\ out = NoOut /\ data = NoData /\ db = NoDb
    /\ map = hashmap_init(0)
    /\ calls = [k \in MapKeys |-> NoCalls]
    /\ touched = {}
    /\ failed = FALSE
    /\ ctx = labels_init /\ played = NonePlayed /\ result = NoResult

\* pair_key(pa, pb) and pair_key(pb, pa)
PairEncode ==
    /\ pkey.stage = 0
    /\ pkey' = [stage |-> 1, ab |-> pair_key(pa, pb), ba |-> pair_key(pb, pa)]
    /\ UNCHANGED <<trainVars, pa, pb, mapVars, labelVars>>

\* pair_decode(pair_key(pa, pb))
PairDecode ==
    /\ pkey.stage = 1
    /\ pkey' = [stage |-> 2, ab |-> pkey.ab, ba |-> pkey.ba, dec |-> pair_decode(pkey.ab)]
    /\ UNCHANGED <<trainVars, pa, pb, mapVars, labelVars>>

PairNext == PairEncode \/ PairDecode

SpecPair == PairInit /\ [][PairNext]_vars

\* a < b as 64-bit numbers, and the low 32 bits of a.
Less64(a, b) == \E i \in 1..4 : a[i] < b[i] /\ \A j \in 1..(i - 1) : a[j] = b[j]
Low32(a) == <<0, 0, a[3], a[4]>>

\* C4: pair_key(a, b) = pair_key(b, a) for all 64-bit identifiers, those
\* above 2^32 included.
C4_PairKeySymmetric == pkey.stage >= 1 => pkey.ab = pkey.ba

\* C4 witness: a = 2^32+1 > b = 2 although a's low 32 bits are the smaller;
\* both orders give the key 0x0000000200000001.
C4_Witness ==
    /\ pkey.stage >= 1
    /\ pa = <<0, 1, 0, 1>> /\ pb = U(2)
    /\ pkey.ab = <<0, 2, 0, 1>> /\ pkey.ba = <<0, 2, 0, 1>>

\* C5: pair_decode(pair_key(a, b)) = (x, y) with x the low 32 bits of the
\* numerically smaller of a, b and y the low 32 bits of the other, so that
\* {x, y} = {a mod 2^32, b mod 2^32}.
C5_DecodeRecovers ==
    pkey.stage = 2 =>
        LET small == IF Less64(pb, pa) THEN pb ELSE pa
            large == IF Less64(pb, pa) THEN pa ELSE pb
        IN  /\ pkey.dec.a = Low32(small)
            /\ pkey.dec.b = Low32(large)
            /\ {pkey.dec.a, pkey.dec.b} = {Low32(pa), Low32(pb)}

\* C5 witness: for a = 2^32+1, b = 2 the decode gives (2, 1): ordered by the
\* full values, not by the truncated ones.
C5_Witness ==
    /\ pkey.stage = 2
    /\ pa = <<0, 1, 0, 1>> /\ pb = U(2)
    /\ pkey.dec = [a |-> U(2), b |-> U(1)]

(***************************************************************************)
(* Spec: the label pipeline - games are aggregated, then pairs computed    *)
(* SpecGame: games are aggregated                                          *)
(***************************************************************************)
\* Games aggregated in one run of Spec, and in one run of SpecGame.
MaxGames == 3
MaxPlayed == 2
\* Cards listed in one game: enough to overflow unique[MAX_GAME_CARDS].
MaxGameLen == MAX_GAME_CARDS + 1

RECURSIVE SeqsUpTo(_, _)
SeqsUpTo(S, n) ==
    IF n = 0 THEN {<<>>}
    ELSE LET shorter == SeqsUpTo(S, n - 1)
         IN  shorter \cup {Append(q, x) : q \in {r \in shorter : Len(r) = n - 1}, x \in S}

\* The (present_cards, count) arguments: every card list up to MaxGameLen with
\* its length, a NULL array, a negative count, and a count shorter than the array.
Cards(q) == [null |-> FALSE, elems |-> q]
NullCards == [null |-> TRUE, elems |-> <<>>]

GameInputs ==
    {[cards |-> Cards(q), count |-> Len(q)] : q \in SeqsUpTo(LabelIds, MaxGameLen)}
    \cup {[cards |-> NullCards, count |-> 1],
          [cards |-> Cards(<<ID_ONE>>), count |-> 0 - 1],
          [cards |-> Cards(<<ID_ONE, ID_LOW_MAX>>), count |-> 1]}

Init ==
    /\ ctx = labels_init /\ played = NonePlayed /\ result = NoResult
    /\ map = hashmap_init(0)
    /\ calls = [k \in MapKeys |-> NoCalls]
    /\ touched = {}
    /\ failed = FALSE
    /\ pa = U(0) /\ pb = U(0) /\ pkey = NoKey
    /\ model = NoModel /\ file = NoFile /\ out = NoOut /\ data = NoData /\ db = NoDb

\* labels_process_game(&ctx, g.cards, g.count, win)
Aggregate(g, win) ==
    /\ ctx' = labels_process_game(ctx, g.cards, g.count, win, TRUE)
    /\ played' = [games |-> played.games + 1,
                  wins |-> played.wins + (IF win # 0 THEN 1 ELSE 0),
                  empty |-> played.empty
                            + (IF g.cards.null \/ g.count <= 0 THEN 1 ELSE 0)]
    /\ UNCHANGED <<trainVars, result, mapVars, pairVars>>

\* labels_compute_pair(&ctx, a, b, &record), once the games are aggregated
ComputePair(a, b) ==
    /\ ~result.called
    /\ LET r == labels_compute_pair(ctx, a, b)
       IN  result' = [called |-> TRUE, card_a |-> a, card_b |-> b,
                      rc |-> r.rc, record |-> r.record]
    /\ UNCHANGED <<trainVars, ctx, played, mapVars, pairVars>>

\* A game is aggregated, before any pair is computed.
ProcessGame(g, win) ==
    /\ ~result.called
    /\ played.games < MaxGames
    /\ Aggregate(g, win)

Next ==
    \/ \E g \in GameInputs, win \in {0, 1} : ProcessGame(g, win)
    \/ \E a \in LabelIds, b \in LabelIds : ComputePair(a, b)

Spec == Init /\ [][Next]_vars

GameInit ==
    /\ ctx = labels_init /\ played = NonePlayed /\ result = NoResult
    /\ map = hashmap_init(0)
    /\ calls = [k \in MapKeys |-> NoCalls]
    /\ touched = {}
    /\ failed = FALSE
    /\ pa = U(0) /\ pb = U(0) /\ pkey = NoKey
    /\ model = NoModel /\ file = NoFile /\ out = NoOut /\ data = NoData /\ db = NoDb

PlayGame(g, win) ==
    /\ played.games < MaxPlayed
    /\ Aggregate(g, win)

GameNext == \E g \in GameInputs, win \in {0, 1} : PlayGame(g, win)

SpecGame == GameInit /\ [][GameNext]_vars

\* What a game is, read off its arguments alone: the array positions
\* labels_process_game may read, the ids present, and the ids among the first
\* MAX_GAME_CARDS distinct ones.
Positions(g) == IF g.cards.null \/ g.count <= 0 THEN {} ELSE 1..g.count
IdsBefore(g, p) == {g.cards.elems[q] : q \in 1..(p - 1)}
Present(g) == {g.cards.elems[p] : p \in Positions(g)}
Retained(g) ==
    {g.cards.elems[p] : p \in {q \in Positions(g) :
        /\ g.cards.elems[q] \notin IdsBefore(g, q)
        /\ Cardinality(IdsBefore(g, q)) < MAX_GAME_CARDS}}

\* An entry's counts after m more games, won or not.
Bumped(e, m, win) ==
    IF m = 0 THEN e
    ELSE IF e = NoEntry THEN [n |-> m, w |-> IF win # 0 THEN m ELSE 0]
    ELSE [n |-> e.n + m, w |-> e.w + (IF win # 0 THEN m ELSE 0)]

\* The unordered pairs of distinct ids of S, and those pair_key maps to key.
Pairs(S) == {P \in {{a, b} : a, b \in S} : Cardinality(P) = 2}
KeyOf(P) == LET a == CHOOSE x \in P : TRUE
                b == CHOOSE x \in P : x # a
            IN  pair_key(a, b)
PairsOnKey(S, key) == {P \in Pairs(S) : KeyOf(P) = key}

\* The states of SpecGame in which labels_process_game is called.
Aggregating == played.games < MaxPlayed

\* C6: every labels_process_game call adds exactly 1 to total_games and 1 to
\* total_wins iff win is set, also for a NULL or empty item set or count <= 0
\* (which change nothing else); so total_games is the number of calls,
\* total_wins the number of winning calls, and total_wins <= total_games.
C6_TotalsCountCalls ==
    /\ ctx.total_games = played.games
    /\ ctx.total_wins = played.wins
    /\ ctx.total_wins <= ctx.total_games
    /\ played.empty = played.games =>
           /\ hashmap_size(ctx.card_stats) = 0
           /\ hashmap_size(ctx.pair_stats) = 0

\* C6 witness: three calls, two of them with no item set, one of them won.
C6_Witness ==
    /\ played.games = 3 /\ played.empty = 2 /\ played.wins = 1
    /\ ctx.total_games = 3 /\ ctx.total_wins = 1

\* C7 as stated: every distinct id present in the game has its card_stats
\* entry incremented by exactly 1 (w iff won), however many distinct ids the
\* game holds; every other id is unchanged.
C7_EveryPresentId ==
    Aggregating =>
      \A g \in GameInputs, win \in {0, 1} :
        LET post == labels_process_game(ctx, g.cards, g.count, win, TRUE)
        IN  \A id \in LabelIds :
              Lookup(post.card_stats, id)
                = Bumped(Lookup(ctx.card_stats, id),
                         IF id \in Present(g) THEN 1 ELSE 0, win)

\* C7 amended: every distinct id among the first MAX_GAME_CARDS distinct ids
\* of the game, the sentinel values excepted, has its card_stats entry
\* incremented by exactly 1 (w iff won), however often it is repeated; every
\* other id (not in the game, beyond the first MAX_GAME_CARDS distinct ids,
\* or a sentinel value) is unchanged.
C7_RetainedIds ==
    Aggregating =>
      \A g \in GameInputs, win \in {0, 1} :
        LET post == labels_process_game(ctx, g.cards, g.count, win, TRUE)
        IN  \A id \in LabelIds :
              Lookup(post.card_stats, id)
                = Bumped(Lookup(ctx.card_stats, id),
                         IF id \in Retained(g) /\ ~IsSentinel(id) THEN 1 ELSE 0, win)

\* C7 witness: after a won game (1, 1, 2^32-1) and a lost game
\* (2^32-1, 1, 2^32+1), ids 1 and 2^32-1 were counted once per game and
\* 2^32+1, the third distinct id of the second game, not at all.
C7_Witness ==
    /\ played.games = 2 /\ played.wins = 1
    /\ Lookup(ctx.card_stats, ID_ONE) = [n |-> 2, w |-> 1]
    /\ Lookup(ctx.card_stats, ID_LOW_MAX) = [n |-> 2, w |-> 1]
    /\ Lookup(ctx.card_stats, ID_ONE_HIGH) = NoEntry
    /\ Lookup(ctx.pair_stats, pair_key(ID_ONE, ID_LOW_MAX)) = [n |-> 2, w |-> 1]
    /\ hashmap_size(ctx.pair_stats) = 1

C9_BucketSums ==
    (result.called /\ result.rc = 0) =>
        LET r == result.record
        IN  /\ r.written
            /\ r.n11 + r.n10 + r.n01 + r.n00 = ctx.total_games
            /\ r.w11 + r.w10 + r.w01 + r.w00 = ctx.total_wins
            /\ \A x \in {r.n11, r.n10, r.n01, r.n00, r.w11, r.w10, r.w01, r.w00} : x >= 0

\* C9 witness: a record returned after three games, with one game holding
\* card a without card b.
C9_Witness ==
    /\ result.called /\ result.rc = 0
    /\ ctx.total_games = 3 /\ ctx.total_wins = 2
    /\ result.record.n11 = 2 /\ result.record.n10 = 1 /\ result.record.w10 = 1

\* C10: labels_compute_pair(a, b) succeeds only if card_stats holds a and b,
\* pair_stats holds pair_key(a, b) and that entry has n >= MIN_BOTH_PRESENT;
\* if one of the three is absent or n < MIN_BOTH_PRESENT it fails; so every
\* emitted record has n11 >= MIN_BOTH_PRESENT.
C10_Eligibility ==
    result.called =>
        LET e_a == Lookup(ctx.card_stats, result.card_a)
            e_b == Lookup(ctx.card_stats, result.card_b)
            e_ab == Lookup(ctx.pair_stats, pair_key(result.card_a, result.card_b))
            eligible == /\ e_a # NoEntry /\ e_b # NoEntry /\ e_ab # NoEntry
                        /\ e_ab.n >= MIN_BOTH_PRESENT
        IN  /\ result.rc = 0 => eligible /\ result.record.n11 >= MIN_BOTH_PRESENT
            /\ ~eligible => result.rc # 0 /\ ~result.record.written

\* C10 witness: all three entries exist but the pair was seen in fewer than
\* MIN_BOTH_PRESENT games, and the call failed.
C10_Witness ==
    /\ result.called /\ result.rc # 0
    /\ Lookup(ctx.card_stats, result.card_a).n >= MIN_BOTH_PRESENT
    /\ Lookup(ctx.card_stats, result.card_b).n >= MIN_BOTH_PRESENT
    /\ Lookup(ctx.pair_stats, pair_key(result.card_a, result.card_b)).n
         = MIN_BOTH_PRESENT - 1

(***************************************************************************)
(* SpecCounts: labels_compute_pair on a context holding arbitrary counts   *)
(***************************************************************************)
\* The largest game count and the largest win count a context is given.
MaxCount == 3
MaxWinCount == 2

\* A context whose stores hold card_a, card_b and their pair key with the
\* given counts (entries obtained from hashmap_put and then assigned).
HeldContext(card_a, card_b, N, W, a, b, ab) ==
    LET pa_ == hashmap_put(labels_init.card_stats, card_a, TRUE)
        ma == SetEntry(pa_.map, pa_.entry, a.n, a.w)
        pb_ == hashmap_put(ma, card_b, TRUE)
        mb == SetEntry(pb_.map, pb_.entry, b.n, b.w)
        pab == hashmap_put(labels_init.pair_stats, pair_key(card_a, card_b), TRUE)
        mab == SetEntry(pab.map, pab.entry, ab.n, ab.w)
    IN  [total_games |-> N, total_wins |-> W, card_stats |-> mb, pair_stats |-> mab]

Counts(maxn, maxw) == [n : 0..maxn, w : 0..maxw]

CountsInit ==
    /\ \E N \in 0..MaxCount, W \in 0..MaxWinCount :
       \E a \in Counts(MaxCount, MaxWinCount), b \in Counts(MaxCount, MaxWinCount) :
       \E ab \in {c \in Counts(MaxCount, MaxWinCount) : c.n >= MIN_BOTH_PRESENT} :
            ctx = HeldContext(ID_ONE, ID_LOW_MAX, N, W, a, b, ab)
    /\ played = NonePlayed /\ result = NoResult
    /\ map = hashmap_init(0)
    /\ calls = [k \in MapKeys |-> NoCalls]
    /\ touched = {}
    /\ failed = FALSE
    /\ pa = U(0) /\ pb = U(0) /\ pkey = NoKey
    /\ model = NoModel /\ file = NoFile /\ out = NoOut /\ data = NoData /\ db = NoDb

\* labels_compute_pair(&ctx, 1, 2^32-1, &record) on the held counts
ComputeHeld == ComputePair(ID_ONE, ID_LOW_MAX)

\* the same with the arguments exchanged
ComputeHeldSwapped == ComputePair(ID_LOW_MAX, ID_ONE)

CountsNext == ComputeHeld \/ ComputeHeldSwapped

SpecCounts == CountsInit /\ [][CountsNext]_vars

\* The six derived buckets of (a, b) as the contract states them, over the
\* integers, from the counts the context holds.
Derived(c, card_a, card_b) ==
    LET a == Lookup(c.card_stats, card_a)
        b == Lookup(c.card_stats, card_b)
        ab == Lookup(c.pair_stats, pair_key(card_a, card_b))
    IN  [n11 |-> ab.n, w11 |-> ab.w,
         n10 |-> a.n - ab.n, n01 |-> b.n - ab.n,
         n00 |-> c.total_games - a.n - b.n + ab.n,
         w10 |-> a.w - ab.w, w01 |-> b.w - ab.w,
         w00 |-> c.total_wins - a.w - b.w + ab.w]

\* C11: for arbitrary held counts with n_ab >= MIN_BOTH_PRESENT,
\* labels_compute_pair fails whenever one of the six derived buckets is
\* negative, and when it succeeds the record holds exactly the six derived
\* buckets and (n11, w11) = (n_ab, w_ab).
C11_DerivedBuckets ==
    result.called =>
        LET d == Derived(ctx, result.card_a, result.card_b)
            r == result.record
        IN  /\ (\E x \in {d.n10, d.n01, d.n00, d.w10, d.w01, d.w00} : x < 0)
                  => result.rc # 0
            /\ result.rc = 0 =>
                  /\ r.n11 = d.n11 /\ r.w11 = d.w11
                  /\ r.n10 = d.n10 /\ r.w10 = d.w10
                  /\ r.n01 = d.n01 /\ r.w01 = d.w01
                  /\ r.n00 = d.n00 /\ r.w00 = d.w00

\* C11 witness: counts that pass the threshold and the win-count checks,
\* with n00 the only negative bucket (N = 2, n_a = n_b = 3, n_ab = 3), and
\* the call failed.
C11_Witness ==
    /\ result.called /\ result.rc # 0
    /\ LET d == Derived(ctx, result.card_a, result.card_b)
       IN  /\ d.n11 >= MIN_BOTH_PRESENT
           /\ d.n00 < 0
           /\ \A x \in {d.n10, d.n01, d.w10, d.w01, d.w00} : x >= 0
           /\ d.w11 <= d.n11 /\ ctx.total_wins <= ctx.total_games

(***************************************************************************)
(* SpecTwice: games are aggregated, then one pair is computed twice        *)
(***************************************************************************)
\* Variant of after_get that creates the entry it looks for.
after_get_creating(m, key) ==
    IF IsSentinel(key) THEN m ELSE hashmap_put(m, key, TRUE).map

\* The store as hashmap_get(&m, key) leaves it: the function assigns to no
\* field of the map and to no entry.
after_get(m, key) == m

\* The context as labels_compute_pair(&c, card_a, card_b, &record) leaves it:
\* its only calls on the context are the three hashmap_get.
after_compute_pair(c, card_a, card_b) ==
    [total_games |-> c.total_games,
     total_wins |-> c.total_wins,
     card_stats |-> after_get(after_get(c.card_stats, card_a), card_b),
     pair_stats |-> after_get(c.pair_stats, pair_key(card_a, card_b))]

TwiceInit ==
    /\ ctx = labels_init /\ played = NonePlayed /\ result = NoResult
    /\ map = hashmap_init(0)
    /\ calls = [k \in MapKeys |-> NoCalls]
    /\ touched = {}
    /\ failed = FALSE
    /\ pa = U(0) /\ pb = U(0) /\ pkey = NoKey
    /\ model = NoModel /\ file = NoFile /\ out = NoOut /\ data = NoData /\ db = NoDb

\* A game is aggregated, before the pair is computed.
TwiceProcessGame(g, win) == ~result.called /\ PlayGame(g, win)

\* The first labels_compute_pair(&ctx, a, b, &record); `before` keeps the
\* context the call was made on.
ComputeFirst(a, b) ==
    /\ ~result.called
    /\ LET r == labels_compute_pair(ctx, a, b)
       IN  result' = [called |-> TRUE, card_a |-> a, card_b |-> b,
                      rc |-> r.rc, record |-> r.record,
                      before |-> ctx, calls |-> 1]
    /\ ctx' = after_compute_pair(ctx, a, b)
    /\ UNCHANGED <<trainVars, played, mapVars, pairVars>>

\* The second call, with the same arguments and the same record object: a
\* call that does not write the record leaves what the first call left.
ComputeAgain ==
    /\ result.called /\ result.calls = 1
    /\ LET r == labels_compute_pair(ctx, result.card_a, result.card_b)
       IN  result' = [called |-> TRUE,
                      card_a |-> result.card_a, card_b |-> result.card_b,
                      rc |-> result.rc, record |-> result.record,
                      before |-> result.before, calls |-> 2,
                      rc2 |-> r.rc,
                      record2 |-> IF r.record.written THEN r.record ELSE result.record]
    /\ ctx' = after_compute_pair(ctx, result.card_a, result.card_b)
    /\ UNCHANGED <<trainVars, played, mapVars, pairVars>>

TwiceNext ==
    \/ \E g \in GameInputs, win \in {0, 1} : TwiceProcessGame(g, win)
    \/ \E a \in LabelIds, b \in LabelIds : ComputeFirst(a, b)
    \/ ComputeAgain

SpecTwice == TwiceInit /\ [][TwiceNext]_vars

BETA_ALPHA == 1
BETA_BETA == 1

\* Variant of labels_smooth_prob that adds BETA_ALPHA only to the games.
labels_smooth_prob_alpha_only(wins, games) ==
    [num |-> wins + BETA_ALPHA, den |-> games + BETA_ALPHA]

labels_smooth_prob(wins, games) ==
    [num |-> wins + BETA_ALPHA, den |-> games + BETA_ALPHA + BETA_BETA]

\* Comparisons of quotients with positive denominators.
QLess(p, q) == p.num * q.den < q.num * p.den
QEqual(p, q) == p.num * q.den = q.num * p.den
Q(a, b) == [num |-> a, den |-> b]

\* The largest wins and games arguments.
MaxSmooth == 7

SmoothInit ==
    /\ \E w \in 0..MaxSmooth, n \in 0..MaxSmooth :
           out = [op |-> "smooth_args", wins |-> w, games |-> n]
    /\ model = NoModel /\ file = NoFile /\ data = NoData /\ db = NoDb
    /\ ctx = labels_init /\ played = NonePlayed /\ result = NoResult
    /\ map = hashmap_init(0)
    /\ calls = [k \in MapKeys |-> NoCalls]
    /\ touched = {}
    /\ failed = FALSE
    /\ pa = U(0) /\ pb = U(0) /\ pkey = NoKey

\* p = labels_smooth_prob(out.wins, out.games)
SmoothProb ==
    /\ out.op = "smooth_args"
    /\ out' = [op |-> "smooth", wins |-> out.wins, games |-> out.games,
               p |-> labels_smooth_prob(out.wins, out.games)]
    /\ UNCHANGED <<model, file, dataVars, mapVars, pairVars, labelVars>>

\* the arguments of the next call
SmoothAgain ==
    /\ out.op = "smooth"
    /\ \E w \in 0..MaxSmooth, n \in 0..MaxSmooth :
           out' = [op |-> "smooth_args", wins |-> w, games |-> n]
    /\ UNCHANGED <<model, file, dataVars, mapVars, pairVars, labelVars>>

SmoothNext == SmoothProb \/ SmoothAgain

SpecSmooth == SmoothInit /\ [][SmoothNext]_vars

RECURSIVE SlotsInOrder(_)
SlotsInOrder(S) ==
    IF S = {} THEN <<>>
    ELSE LET lo == CHOOSE i \in S : \A j \in S : i <= j
         IN  <<lo>> \o SlotsInOrder(S \ {lo})

\* The (key, n, w) arguments of the callbacks of hashmap_iterate(&m, ...),
\* in call order.
iterate_calls(m) ==
    LET slots == SlotsInOrder({i \in DOMAIN m.entries :
                                 m.entries[i].key # HASH_TOMBSTONE})
    IN  [i \in 1..Len(slots) |-> m.entries[slots[i]]]

\* Variant of iterate_loop that stops at the first pair that is not emitted.
RECURSIVE iterate_loop_stop_on_failure(_, _, _, _)
iterate_loop_stop_on_failure(c, entries, i, visited) ==
    IF i > Len(entries) THEN visited
    ELSE LET d == pair_decode(entries[i].key)
             r == labels_compute_pair(c, d.a, d.b)
         IN  IF r.rc = 0
             THEN iterate_loop_stop_on_failure(c, entries, i + 1, Append(visited, r.record))
             ELSE visited

\* iterate_pair_callback on each entry: the records handed to the visitor.
RECURSIVE iterate_loop(_, _, _, _)
iterate_loop(c, entries, i, visited) ==
    IF i > Len(entries) THEN visited
    ELSE LET d == pair_decode(entries[i].key)
             r == labels_compute_pair(c, d.a, d.b)
         IN  iterate_loop(c, entries, i + 1,
                          IF r.rc = 0 THEN Append(visited, r.record) ELSE visited)

labels_iterate(c) == iterate_loop(c, iterate_calls(c.pair_stats), 1, <<>>)

\* write_pair_callback on each entry: wctx->count.
RECURSIVE write_loop(_, _, _, _)
write_loop(c, entries, i, count) ==
    IF i > Len(entries) THEN count
    ELSE LET d == pair_decode(entries[i].key)
             r == labels_compute_pair(c, d.a, d.b)
         IN  write_loop(c, entries, i + 1, IF r.rc = 0 THEN count + 1 ELSE count)

labels_write_csv(c, fopen_ok) ==
    IF ~fopen_ok THEN 0 - 1
    ELSE write_loop(c, iterate_calls(c.pair_stats), 1, 0)

\* Identifiers that fit in 32 bits, and the games over them.
Ids32 == {ID_ONE, U(2), ID_LOW_MAX}
Games32 ==
    {[cards |-> Cards(q), count |-> Len(q)] : q \in SeqsUpTo(Ids32, MaxGameLen)}

IterateInit ==
    /\ ctx = labels_init /\ played = NonePlayed /\ result = NoResult
    /\ map = hashmap_init(0)
    /\ calls = [k \in MapKeys |-> NoCalls]
    /\ touched = {}
    /\ failed = FALSE
    /\ pa = U(0) /\ pb = U(0) /\ pkey = NoKey
    /\ model = NoModel /\ file = NoFile /\ out = NoOut /\ data = NoData /\ db = NoDb

\* A game is aggregated, before the pairs are enumerated.
ProcessGame32(g, win) == ProcessGame(g, win)

\* labels_iterate(&ctx, visitor, data)
Iterate ==
    /\ ~result.called
    /\ result' = [called |-> TRUE, op |-> "iterate", visited |-> labels_iterate(ctx)]
    /\ UNCHANGED <<trainVars, ctx, played, mapVars, pairVars>>

\* labels_write_csv(&ctx, path)
WriteCsv(fopen_ok) ==
    /\ ~result.called
    /\ result' = [called |-> TRUE, op |-> "write", opened |-> fopen_ok,
                  rc |-> labels_write_csv(ctx, fopen_ok)]
    /\ UNCHANGED <<trainVars, ctx, played, mapVars, pairVars>>

IterateNext ==
    \/ \E g \in Games32, win \in {0, 1} : ProcessGame32(g, win)
    \/ Iterate
    \/ \E fopen_ok \in BOOLEAN : WriteCsv(fopen_ok)

SpecIterate == IterateInit /\ [][IterateNext]_vars

\* The pair keys of unordered pairs of distinct 32-bit identifiers whose
\* pair_stats count has reached the threshold.
EligibleKeys(c) ==
    {key \in {pair_key(a, b) : a, b \in Ids32} :
        /\ \E a, b \in Ids32 : a # b /\ pair_key(a, b) = key
        /\ Lookup(c.pair_stats, key) # NoEntry
        /\ Lookup(c.pair_stats, key).n >= MIN_BOTH_PRESENT}

\* C14: after games over 32-bit identifiers, labels_iterate calls the visitor
\* exactly once for each unordered pair whose pair_stats count is at least
\* MIN_BOTH_PRESENT, with n11 equal to that count, and for no other pair;
\* labels_write_csv (its file opened) returns the number of those pairs.
C14_EligiblePairsOnce ==
    result.called =>
        LET E == EligibleKeys(ctx)
        IN  /\ result.op = "iterate" =>
                 LET v == result.visited
                     KeyAtVisit(i) == pair_key(v[i].card_a, v[i].card_b)
                 IN  /\ Len(v) = Cardinality(E)
                     /\ \A key \in E :
                          Cardinality({i \in 1..Len(v) : KeyAtVisit(i) = key}) = 1
                     /\ \A i \in 1..Len(v) :
                          /\ KeyAtVisit(i) \in E
                          /\ v[i].n11 = Lookup(ctx.pair_stats, KeyAtVisit(i)).n
            /\ (result.op = "write" /\ result.opened) => result.rc = Cardinality(E)

\* C14 witness: two pairs are stored, one of them below the threshold, and
\* the visitor was called for the other one only.
C14_Witness ==
    /\ result.called /\ result.op = "iterate"
    /\ hashmap_size(ctx.pair_stats) = 2
    /\ Len(result.visited) = 1
    /\ result.visited[1].n11 = MIN_BOTH_PRESENT

(***************************************************************************)
(* SpecMap: allocation failure of the grow-and-rehash                      *)
(***************************************************************************)
\* C15: when the allocation of a grow-and-rehash fails inside hashmap_put,
\* the call returns NULL and the table is exactly as before: same entries,
\* capacity, size and tombstones, and every key is found by hashmap_get with
\* the same (n, w) as before.
C15_FailedGrowKeepsTable ==
    NeedsResize(map) =>
        \A k \in MapKeys :
            LET r == hashmap_put(map, k, FALSE)
            IN  /\ r.entry = NULL
                /\ r.map = map
                /\ \A j \in MapKeys : Lookup(r.map, j) = Lookup(map, j)

\* C15 witness: a grow could not allocate, the table still has its 16 slots
\* and 12 entries, and an incremented key is found with its counts.
C15_Witness ==
    /\ failed /\ NeedsResize(map)
    /\ map.capacity = 16 /\ map.size = 12
    /\ \E k \in MapKeys : Lookup(map, k) # NoEntry /\ Lookup(map, k).n = 2

\* C16: a failure inside hashmap_increment is reported to its caller, so no
\* increment is silently dropped.  hashmap_increment returns void: every
\* call returns without an indication, so what its callers were told is that
\* each of the calls[k].n increments of a non-sentinel key k was counted.
C16_NoSilentDrop ==
    \A k \in MapKeys : calls[k].n > 0 => Lookup(map, k) = calls[k]

(***************************************************************************)
(* train.c : the synergy model and its file format                         *)
(***************************************************************************)
\* A float is modelled by a small integer it holds exactly (sums and
\* products of such values are exact in float arithmetic); its four bytes in
\* a file are those of the IEEE-754 single it stands for, low byte first.
\* A SynergyModel is a record: cards_ptr tells whether model->cards is the
\* array malloc returned ("live"), NULL ("null") or a released array
\* ("freed"); cards is the sequence cards[0 .. num_cards); a CardModel is
\* [card_id, bias, embedding] with embedding of length EMBED_DIM.
\* EMBED_DIM is 16 and the initial capacity 1024 in the source; the model
\* scales them down so that a file has a few dozen bytes and the card array
\* grows at the second card.
EMBED_DIM == 2
MODEL_INIT_CAPACITY == 1
MODEL_MAGIC == <<49, 78, 89, 83>>
MODEL_VERSION == 1

FloatVals == {0 - 1, 0, 1, 2}
FloatBytes(x) ==
    CASE x = 0 -> <<0, 0, 0, 0>>
      [] x = 1 -> <<0, 0, 128, 63>>
      [] x = 2 -> <<0, 0, 0, 64>>
      [] x = 0 - 1 -> <<0, 0, 128, 191>>
BytesFloat(b) == CHOOSE x \in FloatVals : FloatBytes(x) = b

\* uint32_t and uint64_t values as the bytes fwrite / fread move (little endian).
U32Bytes(n) ==
    <<n % 256, (n \div 256) % 256, (n \div 65536) % 256, (n \div 16777216) % 256>>
BytesU32(b) == b[1] + 256 * b[2] + 65536 * b[3] + 16777216 * b[4]
U64Bytes(k) ==
    <<k[4] % 256, k[4] \div 256, k[3] % 256, k[3] \div 256,
      k[2] % 256, k[2] \div 256, k[1] % 256, k[1] \div 256>>
BytesU64(b) ==
    <<b[7] + 256 * b[8], b[5] + 256 * b[6], b[3] + 256 * b[4], b[1] + 256 * b[2]>>

model_init(alloc_ok) ==
    IF ~alloc_ok
    THEN [rc |-> 0 - 1,
          model |-> [NoModel EXCEPT !.cards_ptr = "null",
                                    !.capacity = MODEL_INIT_CAPACITY]]
    ELSE [rc |-> 0,
          model |-> [cards_ptr |-> "live", cards |-> <<>>, num_cards |-> 0,
                     capacity |-> MODEL_INIT_CAPACITY, global_bias |-> 0,
                     embed_dim |-> EMBED_DIM]]

\* Variant of model_find_card that never looks at cards[0].
model_find_card_from_second(m, card_id) ==
    IF \E i \in 2..m.num_cards : m.cards[i].card_id = card_id
    THEN (CHOOSE i \in 2..m.num_cards :
            /\ m.cards[i].card_id = card_id
            /\ \A j \in 2..(i - 1) : m.cards[j].card_id # card_id) - 1
    ELSE NULL

\* The index of the first card with this id, or NULL.
model_find_card(m, card_id) ==
    IF \E i \in 1..m.num_cards : m.cards[i].card_id = card_id
    THEN (CHOOSE i \in 1..m.num_cards :
            /\ m.cards[i].card_id = card_id
            /\ \A j \in 1..(i - 1) : m.cards[j].card_id # card_id) - 1
    ELSE NULL

\* model_get_card(&m, card_id): rand_embedding holds the EMBED_DIM values the
\* rand() calls give; realloc_ok is the outcome of the realloc, if one is made.
model_get_card(m, card_id, rand_embedding, realloc_ok) ==
    LET existing == model_find_card(m, card_id)
    IN  IF existing # NULL THEN [ret |-> existing, model |-> m]
        ELSE IF m.num_cards >= m.capacity /\ ~realloc_ok
        THEN [ret |-> NULL, model |-> m]
        ELSE [ret |-> m.num_cards,
              model |-> [cards_ptr |-> m.cards_ptr,
                         cards |-> Append(m.cards,
                                          [card_id |-> card_id, bias |-> 0,
                                           embedding |-> rand_embedding]),
                         num_cards |-> m.num_cards + 1,
                         capacity |-> IF m.num_cards >= m.capacity
                                      THEN m.capacity * 2 ELSE m.capacity,
                         global_bias |-> m.global_bias,
                         embed_dim |-> m.embed_dim]]

RECURSIVE dot_loop(_, _, _, _, _)
dot_loop(ea, eb, i, embed_dim, dot) ==
    IF ~(i < embed_dim) THEN dot
    ELSE dot_loop(ea, eb, i + 1, embed_dim, dot + ea[i + 1] * eb[i + 1])

\* Variant of model_predict that looks its cards up with model_get_card.
model_predict_creating(m, card_a, card_b) ==
    LET ga == model_get_card(m, card_a, [j \in 1..EMBED_DIM |-> 0], TRUE)
        gb == model_get_card(ga.model, card_b, [j \in 1..EMBED_DIM |-> 0], TRUE)
        ma == gb.model.cards[ga.ret + 1]
        mb == gb.model.cards[gb.ret + 1]
    IN  [ret |-> dot_loop(ma.embedding, mb.embedding, 0, m.embed_dim, 0)
                   + ma.bias + mb.bias + m.global_bias,
         model |-> gb.model]

\* model_predict(&m, card_a, card_b): the value returned and the model as
\* the call leaves it.
model_predict(m, card_a, card_b) ==
    LET ma == model_find_card(m, card_a)
        mb == model_find_card(m, card_b)
    IN  IF ma = NULL \/ mb = NULL THEN [ret |-> m.global_bias, model |-> m]
        ELSE [ret |-> dot_loop(m.cards[ma + 1].embedding, m.cards[mb + 1].embedding,
                               0, m.embed_dim, 0)
                        + m.cards[ma + 1].bias + m.cards[mb + 1].bias + m.global_bias,
              model |-> m]

\* The bytes of one float array of dim elements.
RECURSIVE floats_bytes(_, _, _)
floats_bytes(embedding, i, dim) ==
    IF ~(i < dim) THEN <<>>
    ELSE FloatBytes(embedding[i + 1]) \o floats_bytes(embedding, i + 1, dim)

RECURSIVE save_cards(_, _, _)
save_cards(cards, i, dim) ==
    IF i > Len(cards) THEN <<>>
    ELSE U64Bytes(cards[i].card_id) \o FloatBytes(cards[i].bias)
         \o floats_bytes(cards[i].embedding, 0, dim) \o save_cards(cards, i + 1, dim)

\* The bytes a build writes for a header, a card array and a global bias.
file_bytes(magic, version, dim, cards, global_bias) ==
    magic \o U32Bytes(version) \o U32Bytes(dim) \o U32Bytes(Len(cards))
    \o save_cards(cards, 1, dim) \o FloatBytes(global_bias)

\* Variant of model_save that writes a zero where the global bias belongs.
model_save_without_global_bias(m) ==
    file_bytes(MODEL_MAGIC, MODEL_VERSION, m.embed_dim, m.cards, 0)

\* model_save(&m, path), the file opened: the bytes written.
model_save(m) ==
    file_bytes(MODEL_MAGIC, MODEL_VERSION, m.embed_dim, m.cards, m.global_bias)

\* The floats of one embedding read from f at byte offset pos (0-based),
\* followed by the zeroes written over the unused dimensions.
load_embedding(f, pos, dim) ==
    [j \in 1..EMBED_DIM |->
        IF j <= dim THEN BytesFloat(SubSeq(f, pos + 4 * (j - 1) + 1, pos + 4 * j))
        ELSE 0]

\* The card loop of model_load from card i at offset pos: the cards read, the
\* offset reached, and whether every fread was satisfied.
RECURSIVE load_cards(_, _, _, _, _, _)
load_cards(f, pos, i, num_cards, dim, cards) ==
    IF ~(i < num_cards) THEN [ok |-> TRUE, cards |-> cards, pos |-> pos]
    ELSE IF Len(f) < pos + 12 + 4 * dim THEN [ok |-> FALSE, cards |-> cards, pos |-> pos]
    ELSE load_cards(f, pos + 12 + 4 * dim, i + 1, num_cards, dim,
                    Append(cards,
                           [card_id |-> BytesU64(SubSeq(f, pos + 1, pos + 8)),
                            bias |-> BytesFloat(SubSeq(f, pos + 9, pos + 12)),
                            embedding |-> load_embedding(f, pos + 12, dim)]))

\* Variant of model_load that stores the header before checking it.
model_load_header_first(m, f, alloc_ok) ==
    IF Len(f) < 16 THEN [rc |-> 0 - 1, model |-> m]
    ELSE [rc |-> 0 - 1,
          model |-> [m EXCEPT !.embed_dim = BytesU32(SubSeq(f, 9, 12))]]

\* model_load(&m, path), the file opened and holding the bytes f; alloc_ok
\* is the outcome of the malloc.
model_load(m, f, alloc_ok) ==
    IF Len(f) < 16 THEN [rc |-> 0 - 1, model |-> m]
    ELSE
    LET magic == SubSeq(f, 1, 4)
        version == BytesU32(SubSeq(f, 5, 8))
        dim == BytesU32(SubSeq(f, 9, 12))
        num_cards == BytesU32(SubSeq(f, 13, 16))
        capacity == IF num_cards > MODEL_INIT_CAPACITY THEN num_cards
                    ELSE MODEL_INIT_CAPACITY
    IN  IF magic # MODEL_MAGIC \/ version # MODEL_VERSION THEN [rc |-> 0 - 1, model |-> m]
        ELSE IF dim > EMBED_DIM THEN [rc |-> 0 - 1, model |-> m]
        ELSE IF ~alloc_ok
        THEN [rc |-> 0 - 1,
              model |-> [m EXCEPT !.embed_dim = dim, !.capacity = capacity,
                                  !.cards_ptr = "null", !.cards = <<>>]]
        ELSE
        LET r == load_cards(f, 16, 0, num_cards, dim, <<>>)
            freed == [cards_ptr |-> "freed", cards |-> <<>>, num_cards |-> num_cards,
                      capacity |-> capacity, global_bias |-> m.global_bias,
                      embed_dim |-> dim]
        IN  IF ~r.ok THEN [rc |-> 0 - 1, model |-> freed]
            ELSE IF Len(f) < r.pos + 4 THEN [rc |-> 0 - 1, model |-> freed]
            ELSE [rc |-> 0,
                  model |-> [cards_ptr |-> "live", cards |-> r.cards,
                             num_cards |-> num_cards, capacity |-> capacity,
                             global_bias |-> BytesFloat(SubSeq(f, r.pos + 1, r.pos + 4)),
                             embed_dim |-> dim]]

(***************************************************************************)
(* SpecModel: a model is built by model_init, model_get_card and the       *)
(* parameter updates of train_model; it is then saved, or a file written   *)
(* by another build (or cut short) is put in its place; the file is loaded *)
(* into a model object of the caller.                                      *)
(***************************************************************************)
MaxCards == 2
ModelIds == {ID_ONE, U(2), ID_ONE_HIGH}
\* the vectors the rand() calls of model_get_card may give
RandEmbeddings ==
    {[j \in 1..EMBED_DIM |-> IF j % 2 = 1 THEN 1 ELSE 0 - 1],
     [j \in 1..EMBED_DIM |-> IF j % 2 = 1 THEN 0 - 1 ELSE 1]}
\* the values a gradient step may leave in a parameter
TrainVals == {0 - 1, 2}
BuildOps == {"none", "get_card", "train"}

\* headers and card arrays of files written by other builds
OTHER_MAGIC == <<49, 78, 89, 84>>
ForeignCards ==
    {<<>>,
     <<[card_id |-> ID_ONE, bias |-> 1, embedding |-> [j \in 1..(EMBED_DIM + 1) |-> 2]]>>,
     <<[card_id |-> ID_ONE, bias |-> 1, embedding |-> [j \in 1..(EMBED_DIM + 1) |-> 2]],
       [card_id |-> ID_ONE_HIGH, bias |-> 0 - 1,
        embedding |-> [j \in 1..(EMBED_DIM + 1) |-> 0 - 1]]>>}

ModelInit ==
    /\ model = model_init(TRUE).model
    /\ file = NoFile /\ data = NoData /\ db = NoDb
    /\ out = [op |-> "none", asked |-> {}]
    /\ ctx = labels_init /\ played = NonePlayed /\ result = NoResult
    /\ map = hashmap_init(0)
    /\ calls = [k \in MapKeys |-> NoCalls]
    /\ touched = {}
    /\ failed = FALSE
    /\ pa = U(0) /\ pb = U(0) /\ pkey = NoKey

\* model_get_card(&model, id); asked collects the ids of the calls that
\* were not refused for want of memory.
GetCard(id, rand_embedding, realloc_ok) ==
    /\ out.op \in BuildOps
    /\ model.num_cards < MaxCards \/ model_find_card(model, id) # NULL
    /\ LET r == model_get_card(model, id, rand_embedding, realloc_ok)
       IN  /\ model' = r.model
           /\ out' = [op |-> "get_card", id |-> id, ret |-> r.ret, before |-> model,
                      asked |-> IF r.ret = NULL THEN out.asked ELSE out.asked \cup {id}]
    /\ UNCHANGED <<file, dataVars, mapVars, pairVars, labelVars>>

\* One sample of train_model's inner loop on the cards at indices a and b:
\* the step rewrites both biases, every embedding entry of both cards and the
\* global bias; v, w and g are the values the arithmetic leaves there.
TrainStep(a, b, v, w, g) ==
    /\ out.op \in BuildOps
    /\ a < model.num_cards /\ b < model.num_cards
    /\ model' = [model EXCEPT
                   !.cards = [i \in 1..Len(model.cards) |->
                                IF i = a + 1 \/ i = b + 1
                                THEN [card_id |-> model.cards[i].card_id, bias |-> v,
                                      embedding |-> [j \in 1..EMBED_DIM |->
                                                       IF j <= model.embed_dim THEN w
                                                       ELSE model.cards[i].embedding[j]]]
                                ELSE model.cards[i]],
                   !.global_bias = g]
    /\ out' = [op |-> "train", asked |-> out.asked]
    /\ UNCHANGED <<file, dataVars, mapVars, pairVars, labelVars>>

\* model_save(&model, path), the file opened
Save ==
    /\ out.op \in BuildOps
    /\ file' = model_save(model)
    /\ out' = [op |-> "save", rc |-> 0]
    /\ UNCHANGED <<model, dataVars, mapVars, pairVars, labelVars>>

\* a file of another build, or the first len bytes of one, is at the path
ForeignFile(magic, version, dim, cards, len) ==
    /\ out.op = "none"
    /\ LET f == file_bytes(magic, version, dim, cards, 2)
       IN  /\ len <= Len(f)
           /\ file' = SubSeq(f, 1, len)
           /\ out' = [op |-> "foreign", magic |-> magic, version |-> version,
                      dim |-> dim, whole |-> len = Len(f)]
    /\ UNCHANGED <<model, dataVars, mapVars, pairVars, labelVars>>

\* model_load(&target, path): target is a model object of the caller, either
\* not initialised (fresh) or a copy of the model held.
Load(fresh, alloc_ok) ==
    /\ out.op \in {"save", "foreign"}
    /\ LET target == IF fresh THEN NoModel ELSE model
           r == model_load(target, file, alloc_ok)
       IN  out' = [op |-> "load", rc |-> r.rc, target |-> target, loaded |-> r.model,
                   alloc_ok |-> alloc_ok, source |-> out]
    /\ UNCHANGED <<model, file, dataVars, mapVars, pairVars, labelVars>>

MaxFileLen == 16 + 2 * (12 + 4 * (EMBED_DIM + 1)) + 4

ModelNext ==
    \/ \E id \in ModelIds, e \in RandEmbeddings, ok \in BOOLEAN : GetCard(id, e, ok)
    \/ \E a \in 0..(MaxCards - 1), b \in 0..(MaxCards - 1),
          v \in TrainVals, w \in TrainVals, g \in TrainVals : TrainStep(a, b, v, w, g)
    \/ Save
    \/ \E magic \in {MODEL_MAGIC, OTHER_MAGIC},
          version \in {MODEL_VERSION, MODEL_VERSION + 1},
          dim \in 0..(EMBED_DIM + 1), cards \in ForeignCards, len \in 0..MaxFileLen :
           ForeignFile(magic, version, dim, cards, len)
    \/ \E fresh \in BOOLEAN, alloc_ok \in BOOLEAN : Load(fresh, alloc_ok)

SpecModel == ModelInit /\ [][ModelNext]_vars

\* Claim-side reading of a model: the positions holding an id, and the dot
\* product of two embeddings over their first n entries.
Holding(m, id) == {i \in 1..Len(m.cards) : m.cards[i].card_id = id}
RECURSIVE Dot(_, _, _)
Dot(ea, eb, n) == IF n = 0 THEN 0 ELSE Dot(ea, eb, n - 1) + ea[n] * eb[n]
Predicted(m, a, b) ==
    IF Holding(m, a) = {} \/ Holding(m, b) = {} THEN m.global_bias
    ELSE LET ca == m.cards[CHOOSE i \in Holding(m, a) : TRUE]
             cb == m.cards[CHOOSE i \in Holding(m, b) : TRUE]
         IN  Dot(ca.embedding, cb.embedding, m.embed_dim) + ca.bias + cb.bias
             + m.global_bias

\* C20: after model_init and any sequence of model_get_card calls (granted
\* the memory they ask for) the model holds exactly one CardModel per id
\* requested; num_cards never decreases; a call for an id already held returns
\* its entry and changes nothing; a call for a new id appends an entry with
\* bias 0 and leaves the id, bias and embedding of every other entry as they
\* were, also when the capacity doubles.
C20_OneCardPerId ==
    out.op \in BuildOps =>
        /\ model.num_cards = Len(model.cards)
        /\ \A id \in ModelIds :
               Cardinality(Holding(model, id)) = (IF id \in out.asked THEN 1 ELSE 0)
        /\ out.op = "get_card" =>
               LET b == out.before
               IN  /\ model.num_cards >= b.num_cards
                   /\ IF Holding(b, out.id) # {}
                      THEN /\ model = b
                           /\ out.ret # NULL
                           /\ b.cards[out.ret + 1].card_id = out.id
                      ELSE IF out.ret = NULL THEN model = b
                      ELSE /\ out.ret = b.num_cards
                           /\ model.num_cards = b.num_cards + 1
                           /\ model.cards[out.ret + 1].card_id = out.id
                           /\ model.cards[out.ret + 1].bias = 0
                           /\ \A i \in 1..b.num_cards : model.cards[i] = b.cards[i]
                           /\ model.global_bias = b.global_bias
                           /\ model.capacity = IF b.num_cards >= b.capacity
                                               THEN 2 * b.capacity ELSE b.capacity

\* a new id was requested of a full array holding a trained card, and the
\* array was grown
C20_Witness ==
    /\ out.op = "get_card"
    /\ out.before.num_cards = out.before.capacity
    /\ out.before.num_cards >= 1
    /\ out.before.cards[1].bias # 0
    /\ out.ret = out.before.num_cards
    /\ model.capacity = 2 * out.before.capacity

\* C19: model_predict(a, b) returns global_bias when a or b has no CardModel,
\* and otherwise the sum over j < embed_dim of embedding_a[j] * embedding_b[j]
\* plus bias_a + bias_b + global_bias; it creates no CardModel and leaves the
\* model as it was.  Checked of the model being built and of every model a
\* load produced.
PredictAsSpecified(m) ==
    \A a \in ModelIds, b \in ModelIds :
        LET r == model_predict(m, a, b)
        IN  /\ r.ret = Predicted(m, a, b)
            /\ r.model = m
C19_Predict ==
    /\ out.op \in BuildOps => PredictAsSpecified(model)
    /\ (out.op = "load" /\ out.rc = 0) => PredictAsSpecified(out.loaded)

\* two trained cards whose prediction differs from the global bias, and an id
\* with no CardModel
C19_Witness ==
    /\ out.op \in BuildOps
    /\ \E a \in ModelIds, b \in ModelIds, c \in ModelIds :
           /\ a # b
           /\ Holding(model, a) # {} /\ Holding(model, b) # {} /\ Holding(model, c) = {}
           /\ model_predict(model, a, b).ret # model.global_bias
           /\ model_predict(model, a, c).ret = model.global_bias
           /\ model.global_bias # 0

\* C17: for a model built by model_init, model_get_card and train_model,
\* model_load of the file model_save wrote (the malloc granted) succeeds and
\* yields the same embed_dim, the same sequence of card ids, the same bias,
\* embedding[0 .. embed_dim) and global_bias, so model_predict agrees with the
\* original on every pair of cards.
C17_RoundTrip ==
    (out.op = "load" /\ out.source.op = "save" /\ out.alloc_ok) =>
        LET l == out.loaded
        IN  /\ out.rc = 0
            /\ l.embed_dim = model.embed_dim
            /\ l.num_cards = model.num_cards
            /\ Len(l.cards) = Len(model.cards)
            /\ \A i \in 1..Len(model.cards) :
                   /\ l.cards[i].card_id = model.cards[i].card_id
                   /\ l.cards[i].bias = model.cards[i].bias
                   /\ \A j \in 1..model.embed_dim :
                          l.cards[i].embedding[j] = model.cards[i].embedding[j]
            /\ l.global_bias = model.global_bias
            /\ \A x \in ModelIds, y \in ModelIds :
                   model_predict(l, x, y).ret = model_predict(model, x, y).ret

\* a saved model of two cards, one trained and one as created, was loaded
\* into an object that had not been initialised
C17_Witness ==
    /\ out.op = "load" /\ out.source.op = "save" /\ out.rc = 0
    /\ out.target = NoModel
    /\ model.num_cards = 2
    /\ model.global_bias = 0 - 1
    /\ model.cards[1].bias = 2
    /\ model.cards[2].bias = 0 /\ model.cards[2].embedding[1] = 1
    /\ out.loaded.cards = model.cards

\* C18: model_load fails whenever the file's magic is not MODEL_MAGIC, its
\* version is not MODEL_VERSION or its dimension exceeds EMBED_DIM, and then
\* no field of the caller's model object has been written; when the dimension
\* is below EMBED_DIM and the load succeeds, every loaded card has
\* embedding[j] = 0 for j in [dim, EMBED_DIM).
C18_RejectsAndPads ==
    out.op = "load" =>
        /\ (/\ out.source.op = "foreign"
            /\ \/ out.source.magic # MODEL_MAGIC
               \/ out.source.version # MODEL_VERSION
               \/ out.source.dim > EMBED_DIM)
           => (out.rc # 0 /\ out.loaded = out.target)
        /\ (out.rc = 0 /\ out.loaded.embed_dim < EMBED_DIM)
           => \A i \in 1..Len(out.loaded.cards) :
                  \A j \in (out.loaded.embed_dim + 1)..EMBED_DIM :
                      out.loaded.cards[i].embedding[j] = 0

\* a whole file with the right magic and version and too large a dimension
\* was refused with the malloc available
C18_Witness ==
    /\ out.op = "load" /\ out.source.op = "foreign"
    /\ out.source.magic = MODEL_MAGIC /\ out.source.version = MODEL_VERSION
    /\ out.source.dim = EMBED_DIM + 1
    /\ out.source.whole /\ Len(file) > 16
    /\ out.alloc_ok
    /\ out.rc # 0

(***************************************************************************)
(* train.c : the training samples                                          *)
(***************************************************************************)
\* A TrainData is a record: samples_ptr tells whether data->samples is a live
\* array, samples is the sequence samples[0 .. count).  The initial capacity
\* is 65536 in the source; the model scales it down so that the array grows
\* at the second sample.  rand() returns a value in 0 .. RAND_MAX.
TRAINDATA_INIT_CAPACITY == 1
RAND_MAX == 5

traindata_init(alloc_ok) ==
    IF ~alloc_ok
    THEN [rc |-> 0 - 1,
          data |-> [NoData EXCEPT !.samples_ptr = "null",
                                  !.capacity = TRAINDATA_INIT_CAPACITY]]
    ELSE [rc |-> 0,
          data |-> [samples_ptr |-> "live", samples |-> <<>>, count |-> 0,
                    capacity |-> TRAINDATA_INIT_CAPACITY]]

\* Variant of traindata_add that takes the doubled capacity before it asks
\* for the memory.
traindata_add_capacity_first(d, card_a, card_b, syn_delta, weight, realloc_ok) ==
    IF d.count >= d.capacity /\ ~realloc_ok
    THEN [rc |-> 0 - 1, data |-> [d EXCEPT !.capacity = d.capacity * 2]]
    ELSE [rc |-> 0,
          data |-> [samples_ptr |-> d.samples_ptr,
                    samples |-> Append(d.samples,
                                       [card_a |-> card_a, card_b |-> card_b,
                                        syn_delta |-> syn_delta, weight |-> weight]),
                    count |-> d.count + 1,
                    capacity |-> IF d.count >= d.capacity
                                 THEN d.capacity * 2 ELSE d.capacity]]

\* traindata_add(&d, card_a, card_b, syn_delta, weight); realloc_ok is the
\* outcome of the realloc, if one is made.
traindata_add(d, card_a, card_b, syn_delta, weight, realloc_ok) ==
    IF d.count >= d.capacity /\ ~realloc_ok
    THEN [rc |-> 0 - 1, data |-> d]
    ELSE [rc |-> 0,
          data |-> [samples_ptr |-> d.samples_ptr,
                    samples |-> Append(d.samples,
                                       [card_a |-> card_a, card_b |-> card_b,
                                        syn_delta |-> syn_delta, weight |-> weight]),
                    count |-> d.count + 1,
                    capacity |-> IF d.count >= d.capacity
                                 THEN d.capacity * 2 ELSE d.capacity]]

\* Variant of shuffle_loop that copies samples[j] over samples[i] and does not
\* write the saved sample back.
RECURSIVE shuffle_loop_no_write_back(_, _, _, _)
shuffle_loop_no_write_back(samples, i, rands, swaps) ==
    IF ~(i > 0) THEN [samples |-> samples, swaps |-> swaps]
    ELSE LET j == rands[i] % (i + 1)
         IN  shuffle_loop_no_write_back([samples EXCEPT ![i + 1] = samples[j + 1]],
                                        i - 1, rands, Append(swaps, [i |-> i, j |-> j]))

\* The loop of traindata_shuffle from index i down; rands[i] is what rand()
\* returns in the iteration for i; swaps collects the (i, j) of each swap.
RECURSIVE shuffle_loop(_, _, _, _)
shuffle_loop(samples, i, rands, swaps) ==
    IF ~(i > 0) THEN [samples |-> samples, swaps |-> swaps]
    ELSE LET j == rands[i] % (i + 1)
             tmp == samples[i + 1]
         IN  shuffle_loop([samples EXCEPT ![i + 1] = samples[j + 1], ![j + 1] = tmp],
                          i - 1, rands, Append(swaps, [i |-> i, j |-> j]))

\* traindata_shuffle(&d): the data after the call and the swaps made.
traindata_shuffle(d, rands) ==
    IF d.count < 2 THEN [data |-> d, swaps |-> <<>>]
    ELSE LET r == shuffle_loop(d.samples, d.count - 1, rands, <<>>)
         IN  [data |-> [d EXCEPT !.samples = r.samples], swaps |-> r.swaps]

(***************************************************************************)
(* SpecShuffle: traindata_shuffle called, any number of times, on a sample *)
(* array of every small content.                                           *)
(***************************************************************************)
MaxShuffled == 3
ShuffleSamples ==
    {[card_a |-> ID_ONE, card_b |-> U(2), syn_delta |-> 1, weight |-> 1],
     [card_a |-> U(2), card_b |-> U(2), syn_delta |-> 0, weight |-> 2],
     [card_a |-> ID_ONE, card_b |-> ID_ONE_HIGH, syn_delta |-> 0 - 1, weight |-> 1]}

\* the capacity of an array that grew from the initial capacity to hold n
RECURSIVE GrownCapacity(_, _)
GrownCapacity(cap, n) == IF n <= cap THEN cap ELSE GrownCapacity(cap * 2, n)

DataOf(samples) ==
    [samples_ptr |-> "live", samples |-> samples, count |-> Len(samples),
     capacity |-> GrownCapacity(TRAINDATA_INIT_CAPACITY, Len(samples))]

ShuffleInit ==
    /\ \E n \in 0..MaxShuffled : \E samples \in [1..n -> ShuffleSamples] :
           data = DataOf(samples)
    /\ out = [op |-> "none"]
    /\ model = NoModel /\ file = NoFile /\ db = NoDb
    /\ ctx = labels_init /\ played = NonePlayed /\ result = NoResult
    /\ map = hashmap_init(0)
    /\ calls = [k \in MapKeys |-> NoCalls]
    /\ touched = {}
    /\ failed = FALSE
    /\ pa = U(0) /\ pb = U(0) /\ pkey = NoKey

\* traindata_shuffle(&data)
Shuffle(rands) ==
    /\ LET r == traindata_shuffle(data, rands)
       IN  /\ data' = r.data
           /\ out' = [op |-> "shuffle", before |-> data, swaps |-> r.swaps]
    /\ UNCHANGED <<model, file, db, mapVars, pairVars, labelVars>>

ShuffleNext == \E rands \in [1..MaxShuffled -> 0..RAND_MAX] : Shuffle(rands)

SpecShuffle == ShuffleInit /\ [][ShuffleNext]_vars

\* how many times sample x occurs in an array
Occurrences(samples, x) == Cardinality({i \in 1..Len(samples) : samples[i] = x})

\* C28: traindata_shuffle is a permutation for every outcome of the random
\* draws: count is unchanged, every sample occurs as often after the call as
\* before it, and every swap index j satisfies 0 <= j <= i.
C28_ShufflePermutes ==
    out.op = "shuffle" =>
        /\ data.count = out.before.count
        /\ Len(data.samples) = data.count
        /\ data.capacity = out.before.capacity
        /\ \A x \in ShuffleSamples :
               Occurrences(data.samples, x) = Occurrences(out.before.samples, x)
        /\ \A k \in 1..Len(out.swaps) :
               /\ 0 <= out.swaps[k].j /\ out.swaps[k].j <= out.swaps[k].i
               /\ out.swaps[k].i < data.count

\* three different samples were shuffled into another order, one of the
\* swaps exchanging a sample with itself
C28_Witness ==
    /\ out.op = "shuffle"
    /\ data.count = 3
    /\ Cardinality({data.samples[i] : i \in 1..3}) = 3
    /\ data.samples # out.before.samples
    /\ Len(out.swaps) = 2
    /\ \E k \in 1..2 : out.swaps[k].j = out.swaps[k].i

(***************************************************************************)
(* train.c : train_model                                                   *)
(***************************************************************************)
\* Variant of prepass_loop that asks for the first card of each sample only.
RECURSIVE prepass_loop_card_a_only(_, _, _, _, _, _)
prepass_loop_card_a_only(m, samples, i, oks, rand_embedding, refused) ==
    IF ~(i < Len(samples)) THEN [model |-> m, refused |-> refused]
    ELSE LET ga == model_get_card(m, samples[i + 1].card_a, rand_embedding,
                                  oks[2 * i + 1])
         IN  prepass_loop_card_a_only(ga.model, samples, i + 1, oks, rand_embedding,
                                      refused \/ ga.ret = NULL)

\* The pre-pass of train_model from sample i: model_get_card for both cards of
\* every sample, the returns ignored.  oks[k] is the outcome of the realloc of
\* the k-th call, if it makes one; refused tells whether some call returned NULL.
RECURSIVE prepass_loop(_, _, _, _, _, _)
prepass_loop(m, samples, i, oks, rand_embedding, refused) ==
    IF ~(i < Len(samples)) THEN [model |-> m, refused |-> refused]
    ELSE LET ga == model_get_card(m, samples[i + 1].card_a, rand_embedding,
                                  oks[2 * i + 1])
             gb == model_get_card(ga.model, samples[i + 1].card_b, rand_embedding,
                                  oks[2 * i + 2])
         IN  prepass_loop(gb.model, samples, i + 1, oks, rand_embedding,
                          refused \/ ga.ret = NULL \/ gb.ret = NULL)

RECURSIVE total_weight_loop(_, _, _)
total_weight_loop(samples, i, total_weight) ==
    IF ~(i < Len(samples)) THEN total_weight
    ELSE total_weight_loop(samples, i + 1, total_weight + samples[i + 1].weight)

\* Variant of embedding_loop that computes the gradient of the second vector
\* after the first vector is written.
RECURSIVE embedding_loop_b_after_a(_, _, _, _, _, _, _, _)
embedding_loop_b_after_a(cards, ia, ib, j, embed_dim, grad, lr, reg) ==
    IF ~(j < embed_dim) THEN [cards |-> cards, grads |-> <<>>]
    ELSE LET ga == grad * cards[ib].embedding[j + 1] + reg * cards[ia].embedding[j + 1]
             wa == [cards EXCEPT ![ia].embedding[j + 1] = @ - lr * ga]
             gb == grad * wa[ia].embedding[j + 1] + reg * wa[ib].embedding[j + 1]
             wb == [wa EXCEPT ![ib].embedding[j + 1] = @ - lr * gb]
             rest == embedding_loop_b_after_a(wb, ia, ib, j + 1, embed_dim, grad, lr, reg)
         IN  [cards |-> rest.cards, grads |-> <<[ga |-> ga, gb |-> gb]>> \o rest.grads]

\* The embedding update of one SGD step from dimension j: ia and ib are the
\* positions of ma and mb in the card array (they may be the same position);
\* grads collects the ga and gb computed for each dimension.
RECURSIVE embedding_loop(_, _, _, _, _, _, _, _)
embedding_loop(cards, ia, ib, j, embed_dim, grad, lr, reg) ==
    IF ~(j < embed_dim) THEN [cards |-> cards, grads |-> <<>>]
    ELSE LET ga == grad * cards[ib].embedding[j + 1] + reg * cards[ia].embedding[j + 1]
             gb == grad * cards[ia].embedding[j + 1] + reg * cards[ib].embedding[j + 1]
             wa == [cards EXCEPT ![ia].embedding[j + 1] = @ - lr * ga]
             wb == [wa EXCEPT ![ib].embedding[j + 1] = @ - lr * gb]
             rest == embedding_loop(wb, ia, ib, j + 1, embed_dim, grad, lr, reg)
         IN  [cards |-> rest.cards, grads |-> <<[ga |-> ga, gb |-> gb]>> \o rest.grads]

\* One iteration of the sample loop of train_model for sample s, with exact
\* arithmetic: whether the sample was skipped, the model after it, and the
\* gradients computed.  The inputs are such that the division by total_weight
\* leaves no remainder.
sgd_step(m, s, lr, reg, total_weight) ==
    LET ma == model_find_card(m, s.card_a)
        mb == model_find_card(m, s.card_b)
    IN  IF ma = NULL \/ mb = NULL
        THEN [skipped |-> TRUE, model |-> m, grad |-> 0, grads |-> <<>>]
        ELSE
        LET ia == ma + 1
            ib == mb + 1
            dot == dot_loop(m.cards[ia].embedding, m.cards[ib].embedding, 0,
                            m.embed_dim, 0)
            pred == dot + m.cards[ia].bias + m.cards[ib].bias + m.global_bias
            error == pred - s.syn_delta
            grad == (2 * error * s.weight) \div total_weight
            ba == [m.cards EXCEPT ![ia].bias = @ - lr * (grad + reg * @)]
            bb == [ba EXCEPT ![ib].bias = @ - lr * (grad + reg * @)]
            e == embedding_loop(bb, ia, ib, 0, m.embed_dim, grad, lr, reg)
        IN  [skipped |-> FALSE,
             model |-> [m EXCEPT !.cards = e.cards,
                                 !.global_bias = @ - lr * grad],
             grad |-> grad, grads |-> e.grads]

\* The same iteration with the arithmetic left open: v is the value the step
\* leaves in every parameter it writes.
sgd_step_any(m, s, v) ==
    LET ma == model_find_card(m, s.card_a)
        mb == model_find_card(m, s.card_b)
    IN  IF ma = NULL \/ mb = NULL THEN [skipped |-> TRUE, model |-> m]
        ELSE [skipped |-> FALSE,
              model |-> [m EXCEPT
                           !.cards = [i \in 1..Len(m.cards) |->
                                        IF i = ma + 1 \/ i = mb + 1
                                        THEN [card_id |-> m.cards[i].card_id,
                                              bias |-> v,
                                              embedding |->
                                                  [j \in 1..EMBED_DIM |->
                                                     IF j <= m.embed_dim THEN v
                                                     ELSE m.cards[i].embedding[j]]]
                                        ELSE m.cards[i]],
                           !.global_bias = v]]

(***************************************************************************)
(* SpecStep: SGD steps with exact arithmetic on a model of two cards.      *)
(***************************************************************************)
MaxSteps == 1
StepVals == {0 - 1, 2}
StepModels ==
    {[cards_ptr |-> "live",
      cards |-> <<[card_id |-> ID_ONE, bias |-> ba, embedding |-> ea],
                  [card_id |-> U(2), bias |-> bb, embedding |-> eb]>>,
      num_cards |-> 2, capacity |-> 2, global_bias |-> g, embed_dim |-> EMBED_DIM] :
        ba \in {0, 1}, bb \in {0, 1}, g \in {0, 1},
        ea \in [1..EMBED_DIM -> StepVals], eb \in [1..EMBED_DIM -> StepVals]}
\* samples on two cards, on one card twice, and on a card the model lacks
StepSamples ==
    {[card_a |-> a, card_b |-> b, syn_delta |-> t, weight |-> w] :
        a \in {ID_ONE, U(2)}, b \in {U(2), ID_ONE_HIGH}, t \in {0, 1}, w \in {1, 2}}

StepInit ==
    /\ model \in StepModels
    /\ \E s \in StepSamples, reg \in {0, 1}, total_weight \in {1, 2} :
           /\ s.weight <= total_weight
           /\ out = [op |-> "step_args", sample |-> s, lr |-> 1, reg |-> reg,
                     total_weight |-> total_weight, steps |-> 0]
    /\ data = NoData /\ file = NoFile /\ db = NoDb
    /\ ctx = labels_init /\ played = NonePlayed /\ result = NoResult
    /\ map = hashmap_init(0)
    /\ calls = [k \in MapKeys |-> NoCalls]
    /\ touched = {}
    /\ failed = FALSE
    /\ pa = U(0) /\ pb = U(0) /\ pkey = NoKey

\* one iteration of the sample loop for out.sample
SgdStep ==
    /\ out.steps < MaxSteps
    /\ LET r == sgd_step(model, out.sample, out.lr, out.reg, out.total_weight)
       IN  /\ model' = r.model
           /\ out' = [op |-> "step", sample |-> out.sample, lr |-> out.lr,
                      reg |-> out.reg, total_weight |-> out.total_weight,
                      steps |-> out.steps + 1, before |-> model,
                      skipped |-> r.skipped, grad |-> r.grad, grads |-> r.grads]
    /\ UNCHANGED <<file, dataVars, mapVars, pairVars, labelVars>>

StepNext == SgdStep

SpecStep == StepInit /\ [][StepNext]_vars

\* the position of the card with this id in a model that holds it once
PositionOf(m, id) == CHOOSE i \in 1..Len(m.cards) : m.cards[i].card_id = id

\* C22: in every SGD step, for each dimension j the gradients of
\* embedding_a[j] and embedding_b[j] are both computed from the values the two
\* vectors had before either is written in the step: ga = g * old_b[j] +
\* reg * old_a[j] and gb = g * old_a[j] + reg * old_b[j], also when the two
\* items of the sample are the same card; each vector is then lowered by lr
\* times its gradient (by both gradients when the two are one vector).
C22_GradientsFromSnapshot ==
    (out.op = "step" /\ ~out.skipped) =>
        LET ia == PositionOf(out.before, out.sample.card_a)
            ib == PositionOf(out.before, out.sample.card_b)
            old_a == out.before.cards[ia].embedding
            old_b == out.before.cards[ib].embedding
        IN  /\ Len(out.grads) = out.before.embed_dim
            /\ \A j \in 1..out.before.embed_dim :
                   /\ out.grads[j].ga = out.grad * old_b[j] + out.reg * old_a[j]
                   /\ out.grads[j].gb = out.grad * old_a[j] + out.reg * old_b[j]
                   /\ IF ia = ib
                      THEN model.cards[ia].embedding[j]
                             = old_a[j] - out.lr * out.grads[j].ga
                               - out.lr * out.grads[j].gb
                      ELSE /\ model.cards[ia].embedding[j]
                                = old_a[j] - out.lr * out.grads[j].ga
                           /\ model.cards[ib].embedding[j]
                                = old_b[j] - out.lr * out.grads[j].gb

\* a step on a sample whose two items are the same card, with a gradient and
\* a regularisation that are not zero
C22_Witness ==
    /\ out.op = "step" /\ ~out.skipped
    /\ out.sample.card_a = out.sample.card_b
    /\ out.grad # 0 /\ out.reg # 0
    /\ model.cards # out.before.cards

(***************************************************************************)
(* SpecTrain: one call of train_model, an action per loop iteration.  The  *)
(* values the arithmetic leaves in the parameters are left open, so every  *)
(* course of the loss is covered.  SpecTrainLive adds that the call keeps  *)
(* running.                                                                *)
(***************************************************************************)
MaxSamples == 2
MaxEpochs == 2
TrainSamples ==
    {[card_a |-> ID_ONE, card_b |-> U(2), syn_delta |-> 1, weight |-> 1],
     [card_a |-> U(2), card_b |-> U(2), syn_delta |-> 0, weight |-> 2]}

TrainInit ==
    /\ model = model_init(TRUE).model
    /\ \E n \in 0..MaxSamples : \E samples \in [1..n -> TrainSamples] :
           data = DataOf(samples)
    /\ \E epochs \in 0..MaxEpochs :
           out = [pc |-> "call", epochs |-> epochs, epoch |-> 0, i |-> 0,
                  refused |-> FALSE, total_weight |-> 0, pass_steps |-> 0,
                  passes |-> <<>>, ret |-> "none"]
    /\ file = NoFile /\ db = NoDb
    /\ ctx = labels_init /\ played = NonePlayed /\ result = NoResult
    /\ map = hashmap_init(0)
    /\ calls = [k \in MapKeys |-> NoCalls]
    /\ touched = {}
    /\ failed = FALSE
    /\ pa = U(0) /\ pb = U(0) /\ pkey = NoKey

\* train_model(&model, &data, lr, reg, epochs) up to the epoch loop: the
\* return for an empty sample set, else the pre-pass and the weight total
TrainCall(oks, rand_embedding) ==
    /\ out.pc = "call"
    /\ IF data.count = 0
       THEN /\ out' = [out EXCEPT !.pc = "returned", !.ret = "error"]
            /\ model' = model
       ELSE LET r == prepass_loop(model, data.samples, 0, oks, rand_embedding, FALSE)
            IN  /\ model' = r.model
                /\ out' = [out EXCEPT
                             !.pc = "epoch", !.refused = r.refused,
                             !.total_weight = total_weight_loop(data.samples, 0, 0)]
    /\ UNCHANGED <<file, dataVars, mapVars, pairVars, labelVars>>

\* the test of the epoch loop, then traindata_shuffle, or the return
EpochTop(rands) ==
    /\ out.pc = "epoch"
    /\ IF out.epoch < out.epochs
       THEN /\ data' = traindata_shuffle(data, rands).data
            /\ out' = [out EXCEPT !.pc = "sample", !.i = 0, !.pass_steps = 0]
       ELSE /\ data' = data
            /\ out' = [out EXCEPT !.pc = "returned", !.ret = "mse"]
    /\ UNCHANGED <<model, file, db, mapVars, pairVars, labelVars>>

\* one iteration of the sample loop: the sample is skipped if one of its
\* cards has no CardModel, else one SGD step is made
Sample(v) ==
    /\ out.pc = "sample"
    /\ out.i < data.count
    /\ LET r == sgd_step_any(model, data.samples[out.i + 1], v)
       IN  /\ model' = r.model
           /\ out' = [out EXCEPT !.i = @ + 1,
                                 !.pass_steps = IF r.skipped THEN @ ELSE @ + 1]
    /\ UNCHANGED <<file, dataVars, mapVars, pairVars, labelVars>>

\* the end of the sample loop: the loss of the pass is taken and the next
\* epoch begins
EpochEnd ==
    /\ out.pc = "sample"
    /\ ~(out.i < data.count)
    /\ out' = [out EXCEPT !.pc = "epoch", !.epoch = @ + 1,
                          !.passes = Append(@, out.pass_steps)]
    /\ UNCHANGED <<model, file, dataVars, mapVars, pairVars, labelVars>>

TrainNext ==
    \/ \E oks \in [1..(2 * MaxSamples) -> BOOLEAN], e \in RandEmbeddings :
           TrainCall(oks, e)
    \/ \E rands \in [1..MaxSamples -> 0..RAND_MAX] : EpochTop(rands)
    \/ \E v \in TrainVals : Sample(v)
    \/ EpochEnd

SpecTrain == TrainInit /\ [][TrainNext]_vars
SpecTrainLive == SpecTrain /\ WF_vars(TrainNext)

CARDDB_INIT_CAPACITY == 1
MAX_CARD_NAME_LEN == 3

carddb_init(alloc_ok) ==
    IF ~alloc_ok
    THEN [rc |-> 0 - 1,
          db |-> [NoDb EXCEPT !.cards_ptr = "null", !.capacity = CARDDB_INIT_CAPACITY]]
    ELSE [rc |-> 0,
          db |-> [cards_ptr |-> "live", cards |-> <<>>, count |-> 0,
                  capacity |-> CARDDB_INIT_CAPACITY]]

\* strncpy(dst, name, n) followed by dst[n] = 0: the first n characters
strncpy(name, n) == IF Len(name) <= n THEN name ELSE SubSeq(name, 1, n)

\* carddb_add(&d, id, name); realloc_ok is the outcome of the realloc, if one
\* is made.
carddb_add(d, id, name, realloc_ok) ==
    IF name.null THEN [rc |-> 0 - 1, db |-> d]
    ELSE IF d.count >= d.capacity /\ ~realloc_ok THEN [rc |-> 0 - 1, db |-> d]
    ELSE [rc |-> 0,
          db |-> [cards_ptr |-> d.cards_ptr,
                  cards |-> Append(d.cards,
                                   [id |-> id,
                                    name |-> strncpy(name.chars, MAX_CARD_NAME_LEN - 1)]),
                  count |-> d.count + 1,
                  capacity |-> IF d.count >= d.capacity
                               THEN d.capacity * 2 ELSE d.capacity]]

(***************************************************************************)
(* SpecGrow: the three growable arrays filled by their add operations,     *)
(* every realloc granted or refused.                                       *)
(***************************************************************************)
MaxGrown == 2
GrowNames ==
    {[null |-> FALSE, chars |-> <<"a">>], [null |-> FALSE, chars |-> <<"B", "o", "b">>],
     [null |-> TRUE, chars |-> <<>>]}

GrowInit ==
    /\ model = model_init(TRUE).model
    /\ data = traindata_init(TRUE).data
    /\ db = carddb_init(TRUE).db
    /\ out = [op |-> "none", refused |-> {}]
    /\ file = NoFile
    /\ ctx = labels_init /\ played = NonePlayed /\ result = NoResult
    /\ map = hashmap_init(0)
    /\ calls = [k \in MapKeys |-> NoCalls]
    /\ touched = {}
    /\ failed = FALSE
    /\ pa = U(0) /\ pb = U(0) /\ pkey = NoKey

\* model_get_card(&model, id); refused collects the operations that have
\* returned an error so far
GrowGetCard(id, rand_embedding, realloc_ok) ==
    /\ model.num_cards < MaxGrown \/ model_find_card(model, id) # NULL
    /\ LET r == model_get_card(model, id, rand_embedding, realloc_ok)
       IN  /\ model' = r.model
           /\ out' = [op |-> "model_get_card", error |-> r.ret = NULL,
                      realloc_ok |-> realloc_ok, before |-> model,
                      held |-> model_find_card(model, id) # NULL, no_name |-> FALSE,
                      refused |-> IF r.ret = NULL
                                  THEN out.refused \cup {"model_get_card"}
                                  ELSE out.refused]
    /\ UNCHANGED <<file, dataVars, mapVars, pairVars, labelVars>>

\* traindata_add(&data, s.card_a, s.card_b, s.syn_delta, s.weight)
GrowAddSample(s, realloc_ok) ==
    /\ data.count < MaxGrown
    /\ LET r == traindata_add(data, s.card_a, s.card_b, s.syn_delta, s.weight,
                              realloc_ok)
       IN  /\ data' = r.data
           /\ out' = [op |-> "traindata_add", error |-> r.rc # 0,
                      realloc_ok |-> realloc_ok, before |-> data, held |-> FALSE,
                      no_name |-> FALSE,
                      refused |-> IF r.rc # 0
                                  THEN out.refused \cup {"traindata_add"}
                                  ELSE out.refused]
    /\ UNCHANGED <<model, file, db, mapVars, pairVars, labelVars>>

\* carddb_add(&db, id, name)
GrowAddCard(id, name, realloc_ok) ==
    /\ db.count < MaxGrown
    /\ LET r == carddb_add(db, id, name, realloc_ok)
       IN  /\ db' = r.db
           /\ out' = [op |-> "carddb_add", error |-> r.rc # 0,
                      realloc_ok |-> realloc_ok, before |-> db, held |-> FALSE,
                      no_name |-> name.null,
                      refused |-> IF r.rc # 0
                                  THEN out.refused \cup {"carddb_add"}
                                  ELSE out.refused]
    /\ UNCHANGED <<model, file, data, mapVars, pairVars, labelVars>>

GrowNext ==
    \/ \E id \in {ID_ONE, U(2)}, e \in {CHOOSE e \in RandEmbeddings : TRUE},
          ok \in BOOLEAN : GrowGetCard(id, e, ok)
    \/ \E s \in TrainSamples, ok \in BOOLEAN : GrowAddSample(s, ok)
    \/ \E id \in {ID_ONE, U(2)}, name \in GrowNames, ok \in BOOLEAN :
           GrowAddCard(id, name, ok)

SpecGrow == GrowInit /\ [][GrowNext]_vars

\* the array an operation works on: its element count, capacity and elements
ArrayOf(op, m, d, c) ==
    CASE op = "model_get_card" ->
             [count |-> m.num_cards, capacity |-> m.capacity, elems |-> m.cards,
              ptr |-> m.cards_ptr]
      [] op = "traindata_add" ->
             [count |-> d.count, capacity |-> d.capacity, elems |-> d.samples,
              ptr |-> d.samples_ptr]
      [] op = "carddb_add" ->
             [count |-> c.count, capacity |-> c.capacity, elems |-> c.cards,
              ptr |-> c.cards_ptr]

\* C23: when realloc fails in model_get_card, traindata_add or carddb_add the
\* call returns an error and the structure's element count, capacity and
\* elements are as before; the structure stays usable: a later call that is
\* granted its memory succeeds, doubles the capacity and appends one element
\* after the existing ones.
C23_FailedGrowthKeepsArray ==
    out.op \in {"model_get_card", "traindata_add", "carddb_add"} =>
        LET old == ArrayOf(out.op, out.before, out.before, out.before)
            new == ArrayOf(out.op, model, data, db)
            full == old.count >= old.capacity
        IN  /\ new.count = Len(new.elems) /\ new.count <= new.capacity
            /\ new.ptr = "live"
            /\ out.error <=> (out.no_name \/ (full /\ ~out.realloc_ok /\ ~out.held))
            /\ out.error => new = old
            /\ out.held => (~out.error /\ new = old)
            /\ (~out.error /\ ~out.held) =>
                   /\ new.count = old.count + 1
                   /\ new.capacity = IF full THEN 2 * old.capacity ELSE old.capacity
                   /\ \A i \in 1..old.count : new.elems[i] = old.elems[i]

\* each of the three operations has been refused, and the last call, on an
\* array that was refused before, grew it
C23_Witness ==
    /\ out.refused = {"model_get_card", "traindata_add", "carddb_add"}
    /\ out.op = "carddb_add" /\ ~out.error
    /\ out.before.count >= out.before.capacity
    /\ db.capacity = 2 * out.before.capacity
    /\ model.num_cards >= 1 /\ data.count >= 1

(***************************************************************************)
(* SpecMap: the load-factor policy and the upsert of a present key         *)
(***************************************************************************)
\* the claim's condition, read off the table at entry to a call
OverLoad(m) == (m.size + m.tombstones) * 10 > m.capacity * 7

\* what a grow must preserve: the keys found, with their counts, and the size
SameLiveKeys(m1, m2) ==
    /\ m1.size = m2.size
    /\ \A j \in MapKeys : Lookup(m1, j) = Lookup(m2, j)

\* C26 as stated: hashmap_put grows the table exactly when (size +
\* tombstones) * 10 > capacity * 7 holds at entry to the call, for every key;
\* a put that does not meet the condition never changes capacity.
C26_EveryPut ==
    \A k \in AllKeys :
        (hashmap_put(map, k, TRUE).map.capacity # map.capacity) <=> OverLoad(map)

\* C26 amended: hashmap_put of a key other than the two sentinels, with the
\* allocation granted, grows the table exactly when the condition holds at
\* entry, whether or not the key is present; the grow doubles capacity, keeps
\* the live keys with their (n, w) and the size, and sets tombstones to 0; a
\* put that does not meet the condition, one whose allocation is refused, and
\* a put of a sentinel key never change capacity.
C26_NonSentinelPut ==
    /\ \A k \in MapKeys :
           LET r == hashmap_put(map, k, TRUE)
               g == hashmap_resize(map, TRUE).map
           IN  /\ (r.map.capacity # map.capacity) <=> OverLoad(map)
               /\ hashmap_put(map, k, FALSE).map.capacity = map.capacity
               /\ OverLoad(map) =>
                      /\ g.capacity = 2 * map.capacity
                      /\ g.tombstones = 0
                      /\ SameLiveKeys(g, map)
                      /\ r.map.capacity = 2 * map.capacity
                      /\ r.map.tombstones = 0
                      /\ r.map.size
                           = map.size + (IF hashmap_get(map, k) = NULL THEN 1 ELSE 0)
                      /\ \A j \in MapKeys \ {k} : Lookup(r.map, j) = Lookup(map, j)
    /\ \A k \in SentinelKeys, ok \in BOOLEAN : hashmap_put(map, k, ok).map = map

\* a table of 16 slots and 12 entries, some counted, is over its load at the
\* entry of the next put, for keys it holds and for a key it lacks
C26_Witness ==
    /\ map.capacity = 16 /\ map.size = 12 /\ OverLoad(map)
    /\ \E k \in MapKeys : Lookup(map, k) # NoEntry /\ Lookup(map, k).n > 0
    /\ \E k \in MapKeys : Lookup(map, k) = NoEntry

\* C27: upsert of a key that is already present always returns the existing
\* entry and never changes the set of live keys, their (n, w) or size - in
\* every reachable state, also when the allocation of a grow fails.
C27_PresentKeyUpsert ==
    \A k \in MapKeys, ok \in BOOLEAN :
        hashmap_get(map, k) # NULL =>
            LET r == hashmap_put(map, k, ok)
            IN  /\ r.entry # NULL
                /\ r.map.entries[r.entry].key = k
                /\ SameLiveKeys(r.map, map)

(***************************************************************************)
(* SpecIterate: the counts the aggregator leaves are those of a 2x2 table  *)
(***************************************************************************)
\* The pair keys of two 32-bit identifiers that pair_stats holds.
PresentPairKeys(c) ==
    {key \in {pair_key(a, b) : a, b \in Ids32} : Lookup(c.pair_stats, key) # NoEntry}

Min(x, y) == IF x <= y THEN x ELSE y

\* The counts of one present pair key and of its two decoded items fit one
\* table of total_games games and total_wins wins.
Consistent(c, key) ==
    LET d == pair_decode(key)
        A == Lookup(c.card_stats, d.a)
        B == Lookup(c.card_stats, d.b)
        AB == Lookup(c.pair_stats, key)
    IN  /\ A # NoEntry /\ B # NoEntry
        /\ AB.n <= Min(A.n, B.n)
        /\ A.n + B.n - AB.n <= c.total_games
        /\ AB.w <= Min(A.w, B.w)
        /\ A.w + B.w - AB.w <= c.total_wins
        /\ A.w <= A.n /\ B.w <= B.n /\ AB.w <= AB.n

\* C30: after any sequence of labels_process_game calls with 32-bit
\* identifiers (every table growth allocating), each pair key present has
\* n_ab <= min(n_a, n_b), n_a + n_b - n_ab <= total_games, the same for the
\* win counts, and wins <= games for both items and the pair; and
\* labels_compute_pair fails only for an absent entry or n_ab below
\* MIN_BOTH_PRESENT, never for an invalid win count or a negative bucket.
C30_ConsistentCounts ==
    /\ ctx.total_wins <= ctx.total_games
    /\ \A key \in PresentPairKeys(ctx) : Consistent(ctx, key)
    /\ \A a \in Ids32, b \in Ids32 :
          LET r == labels_compute_pair(ctx, a, b)
              absent == \/ Lookup(ctx.card_stats, a) = NoEntry
                        \/ Lookup(ctx.card_stats, b) = NoEntry
                        \/ Lookup(ctx.pair_stats, pair_key(a, b)) = NoEntry
          IN  r.rc # 0 =>
                \/ absent
                \/ Lookup(ctx.pair_stats, pair_key(a, b)).n < MIN_BOTH_PRESENT

\* A pair seen twice, once in a lost game, one of its items seen a third time
\* alone: the pair is emitted with a non-empty n10 bucket.
C30_Witness ==
    /\ ctx.total_games = 3 /\ ctx.total_wins = 1
    /\ Lookup(ctx.pair_stats, pair_key(ID_ONE, U(2))) = [n |-> 2, w |-> 1]
    /\ Lookup(ctx.card_stats, ID_ONE) = [n |-> 3, w |-> 1]
    /\ labels_compute_pair(ctx, ID_ONE, U(2)).rc = 0
    /\ labels_compute_pair(ctx, ID_ONE, U(2)).record.n10 = 1

(***************************************************************************)
(* SpecOrder: the same games aggregated in every order                     *)
(***************************************************************************)
MaxOrdered == 2

\* An identifier whose home slot in card_stats is that of ID_ONE.
ID_SAME_SLOT == U(944)
OrderIds == {ID_ONE, ID_SAME_SLOT, U(2)}
OrderGames ==
    {[cards |-> Cards(q), count |-> Len(q)] : q \in SeqsUpTo(OrderIds, MAX_GAME_CARDS)}
    \cup {[cards |-> NullCards, count |-> 0]}

OrderInit ==
    /\ ctx = labels_init
    /\ played = [games |-> 0, wins |-> 0, empty |-> 0, log |-> <<>>]
    /\ result = NoResult
    /\ map = hashmap_init(0)
    /\ calls = [k \in MapKeys |-> NoCalls]
    /\ touched = {}
    /\ failed = FALSE
    /\ pa = U(0) /\ pb = U(0) /\ pkey = NoKey
    /\ model = NoModel /\ file = NoFile /\ out = NoOut /\ data = NoData /\ db = NoDb

\* labels_process_game(&ctx, g.cards, g.count, win), the call logged.
OrderGame(g, win) ==
    /\ Len(played.log) < MaxOrdered
    /\ ctx' = labels_process_game(ctx, g.cards, g.count, win, TRUE)
    /\ played' = [games |-> played.games + 1,
                  wins |-> played.wins + (IF win # 0 THEN 1 ELSE 0),
                  empty |-> played.empty
                            + (IF g.cards.null \/ g.count <= 0 THEN 1 ELSE 0),
                  log |-> Append(played.log, [game |-> g, win |-> win])]
    /\ UNCHANGED <<trainVars, result, mapVars, pairVars>>

OrderNext == \E g \in OrderGames, win \in {0, 1} : OrderGame(g, win)

SpecOrder == OrderInit /\ [][OrderNext]_vars

\* labels_process_game called for log[i], log[i + 1], ... in turn.
RECURSIVE game_loop(_, _, _)
game_loop(c, log, i) ==
    IF i > Len(log) THEN c
    ELSE game_loop(labels_process_game(c, log[i].game.cards, log[i].game.count,
                                       log[i].win, TRUE),
                   log, i + 1)

\* Every ordering of the calls of a log.
Orderings(log) ==
    {[i \in 1..Len(log) |-> log[p[i]]] :
        p \in {q \in [1..Len(log) -> 1..Len(log)] :
                  \A i, j \in 1..Len(log) : q[i] = q[j] => i = j}}

\* The same totals and the same key -> (n, w) contents, whatever the slots.
SameStatistics(c1, c2) ==
    /\ c1.total_games = c2.total_games
    /\ c1.total_wins = c2.total_wins
    /\ hashmap_iterate(c1.card_stats) = hashmap_iterate(c2.card_stats)
    /\ hashmap_iterate(c1.pair_stats) = hashmap_iterate(c2.pair_stats)

\* C25: for any two orderings of the same multiset of games, applying
\* labels_process_game to each game in either order from a fresh context
\* gives the same total_games, total_wins and the same key -> (n, w)
\* contents of card_stats and pair_stats.
C25_OrderIndependent ==
    \A o \in Orderings(played.log) :
        SameStatistics(game_loop(labels_init, o, 1), ctx)

\* Two games whose other order leaves card_stats with another slot layout.
C25_Witness ==
    /\ Len(played.log) = MaxOrdered
    /\ played.wins = 1
    /\ hashmap_size(ctx.pair_stats) >= 1
    /\ \E o \in Orderings(played.log) :
          /\ game_loop(labels_init, o, 1).card_stats # ctx.card_stats
          /\ SameStatistics(game_loop(labels_init, o, 1), ctx)

(***************************************************************************)
(* csv.h / csv.c : the line reader                                         *)
(***************************************************************************)
\* A string is the sequence of its characters (one-character strings)
\* without the terminating zero; a const char * is [null, chars].  A file is
\* the sequence of its lines, each without its "\n".  CSV_MAX_FIELDS is 4096
\* in the source; the model scales it down.
CSV_MAX_LINE == 65536
CSV_MAX_FIELDS == 6

NUL == ""
Str(chars) == [null |-> FALSE, chars |-> chars]
NullStr == [null |-> TRUE, chars |-> <<>>]

\* s[p - 1] in C, the terminating zero behind the last character.
CharAt(s, p) == IF p \in 1..Len(s) THEN s[p] ELSE NUL

isspace(c) == c \in {" ", "\t", "\n", "\r", "\f"}
isdigit(c) == c \in {"0", "1", "2", "3", "4", "5", "6", "7", "8", "9"}
DigitValue(c) ==
    CASE c = "0" -> 0 [] c = "1" -> 1 [] c = "2" -> 2 [] c = "3" -> 3 [] c = "4" -> 4
      [] c = "5" -> 5 [] c = "6" -> 6 [] c = "7" -> 7 [] c = "8" -> 8 [] c = "9" -> 9

csv_open(fopen_ok) ==
    IF ~fopen_ok THEN [rc |-> 0 - 1, reader |-> [fp |-> "null"]]
    ELSE [rc |-> 0,
          reader |-> [fp |-> "open", pos |-> 1, offset |-> 0,
                      fields |-> <<>>, num_fields |-> 0, line_number |-> 0]]

\* The scan of a quoted field from p, behind its opening quote: the
\* characters of the field and the position behind its closing quote.
RECURSIVE quoted_loop(_, _, _)
quoted_loop(line, p, field) ==
    IF CharAt(line, p) = NUL THEN [field |-> field, p |-> p]
    ELSE IF line[p] = "\""
    THEN IF CharAt(line, p + 1) = "\""
         THEN quoted_loop(line, p + 2, Append(field, "\""))
         ELSE [field |-> field, p |-> p + 1]
    ELSE quoted_loop(line, p + 1, Append(field, line[p]))

\* while (*p && *p != ',') p++;
RECURSIVE skip_to_comma(_, _)
skip_to_comma(line, p) ==
    IF CharAt(line, p) = NUL \/ CharAt(line, p) = "," THEN p
    ELSE skip_to_comma(line, p + 1)

\* The field loop of parse_csv_line.
RECURSIVE parse_loop(_, _, _)
parse_loop(line, p, fields) ==
    IF CharAt(line, p) = NUL \/ Len(fields) >= CSV_MAX_FIELDS THEN fields
    ELSE IF line[p] = "\""
    THEN LET q == quoted_loop(line, p + 1, <<>>)
             c == skip_to_comma(line, q.p)
         IN  parse_loop(line, IF CharAt(line, c) = "," THEN c + 1 ELSE c,
                        Append(fields, q.field))
    ELSE LET c == skip_to_comma(line, p)
         IN  parse_loop(line, IF CharAt(line, c) = "," THEN c + 1 ELSE c,
                        Append(fields, SubSeq(line, p, c - 1)))

parse_csv_line(line) == parse_loop(line, 1, <<>>)

\* The end-of-line strip of csv_next_row.
RECURSIVE strip_eol(_)
strip_eol(line) ==
    IF Len(line) > 0 /\ line[Len(line)] \in {"\n", "\r"}
    THEN strip_eol(SubSeq(line, 1, Len(line) - 1))
    ELSE line

\* fgets(reader->line, CSV_MAX_LINE, fp) on the lines f: at most
\* CSV_MAX_LINE - 1 characters of the current line, from the offset reached.
fgets(reader, f) ==
    LET rest == SubSeq(f[reader.pos], reader.offset + 1, Len(f[reader.pos]))
    IN  IF Len(rest) > CSV_MAX_LINE - 1
        THEN [line |-> SubSeq(rest, 1, CSV_MAX_LINE - 1),
              pos |-> reader.pos, offset |-> reader.offset + CSV_MAX_LINE - 1]
        ELSE [line |-> rest, pos |-> reader.pos + 1, offset |-> 0]

\* csv_next_row(&reader) on the lines f: [rc, reader].
csv_next_row(reader, f) ==
    IF reader.fp # "open" THEN [rc |-> 0 - 1, reader |-> reader]
    ELSE IF reader.pos > Len(f) THEN [rc |-> 0, reader |-> reader]
    ELSE LET g == fgets(reader, f)
             fields == parse_csv_line(strip_eol(g.line))
         IN  [rc |-> 1,
              reader |-> [reader EXCEPT !.pos = g.pos, !.offset = g.offset,
                                        !.fields = fields,
                                        !.num_fields = Len(fields),
                                        !.line_number = @ + 1]]

csv_get_field(reader, index) ==
    IF index < 0 \/ index >= reader.num_fields THEN NullStr
    ELSE Str(reader.fields[index + 1])

RECURSIVE find_column_loop(_, _, _)
find_column_loop(reader, name, i) ==
    IF i >= reader.num_fields THEN 0 - 1
    ELSE IF reader.fields[i + 1] = name THEN i
    ELSE find_column_loop(reader, name, i + 1)

csv_find_column(reader, name) == find_column_loop(reader, name, 0)

\* 10 * v + d on uint64_t: [val, overflow].
Mul10Add(v, d) ==
    LET w4 == v[4] * 10 + d
        w3 == v[3] * 10 + (w4 \div 65536)
        w2 == v[2] * 10 + (w3 \div 65536)
        w1 == v[1] * 10 + (w2 \div 65536)
    IN  [val |-> <<w1 % 65536, w2 % 65536, w3 % 65536, w4 % 65536>>,
         overflow |-> w1 >= 65536]

\* 0 - v on uint64_t.
Neg64(v) ==
    LET w4 == (65535 - v[4]) + 1
        w3 == (65535 - v[3]) + (w4 \div 65536)
        w2 == (65535 - v[2]) + (w3 \div 65536)
        w1 == (65535 - v[1]) + (w2 \div 65536)
    IN  <<w1 % 65536, w2 % 65536, w3 % 65536, w4 % 65536>>

RECURSIVE skip_space(_, _)
skip_space(s, p) == IF isspace(CharAt(s, p)) THEN skip_space(s, p + 1) ELSE p

\* The digits of strtoull from p: [val, end, overflow].
RECURSIVE digits_loop(_, _, _, _)
digits_loop(s, p, val, overflow) ==
    IF ~isdigit(CharAt(s, p)) THEN [val |-> val, end |-> p, overflow |-> overflow]
    ELSE LET m == Mul10Add(val, DigitValue(s[p]))
         IN  digits_loop(s, p + 1, m.val, overflow \/ m.overflow)

\* strtoull(s + p - 1, &end, 10): [val, end], end = p when no digit is found.
strtoull(s, p) ==
    LET q == skip_space(s, p)
        signed == CharAt(s, q) \in {"+", "-"}
        d == digits_loop(s, IF signed THEN q + 1 ELSE q, U(0), FALSE)
    IN  IF d.end = (IF signed THEN q + 1 ELSE q) THEN [val |-> U(0), end |-> p]
        ELSE IF d.overflow THEN [val |-> HASH_EMPTY_KEY, end |-> d.end]
        ELSE IF CharAt(s, q) = "-" THEN [val |-> Neg64(d.val), end |-> d.end]
        ELSE [val |-> d.val, end |-> d.end]

\* The digits of strtod from p, as an integer.
RECURSIVE decimal_loop(_, _, _)
decimal_loop(s, p, val) ==
    IF ~isdigit(CharAt(s, p)) THEN val
    ELSE decimal_loop(s, p + 1, 10 * val + DigitValue(s[p]))

\* strtod(s, NULL) of a string that holds an optionally signed decimal
\* integer, or no number (0.0); the runs use no other strings.
strtod(s) ==
    LET q == skip_space(s, 1)
    IN  IF CharAt(s, q) = "-" THEN 0 - decimal_loop(s, q + 1, 0)
        ELSE IF CharAt(s, q) = "+" THEN decimal_loop(s, q + 1, 0)
        ELSE decimal_loop(s, q, 0)

\* while (*p && (isspace(*p) || *p == '[')) p++;
RECURSIVE skip_space_bracket(_, _)
skip_space_bracket(s, p) ==
    IF isspace(CharAt(s, p)) \/ CharAt(s, p) = "[" THEN skip_space_bracket(s, p + 1)
    ELSE p

\* while (*p && (*p == ',' || isspace(*p))) p++;
RECURSIVE skip_separators(_, _)
skip_separators(s, p) ==
    IF isspace(CharAt(s, p)) \/ CharAt(s, p) = "," THEN skip_separators(s, p + 1)
    ELSE p

\* The number loop of csv_parse_list: the values stored in out[].
RECURSIVE list_loop(_, _, _, _)
list_loop(s, p, list, max_count) ==
    IF CharAt(s, p) = NUL \/ Len(list) >= max_count THEN list
    ELSE LET q == skip_space(s, p)
         IN  IF CharAt(s, q) = "]" \/ CharAt(s, q) = NUL THEN list
             ELSE IF isdigit(s[q])
             THEN LET r == strtoull(s, q)
                  IN  list_loop(s, skip_separators(s, r.end), Append(list, r.val),
                                max_count)
             ELSE list_loop(s, skip_separators(s, q + 1), list, max_count)

\* csv_parse_list(field, out, max_count): the values stored, their number
\* the return value.
csv_parse_list(field, max_count) ==
    IF field.null \/ max_count <= 0 THEN <<>>
    ELSE list_loop(field.chars, skip_space_bracket(field.chars, 1), <<>>, max_count)

(***************************************************************************)
(* train.c : traindata_load                                                *)
(***************************************************************************)
MAX_WEIGHT == 1000

S_card_a == <<"c", "a", "r", "d", "_", "a">>
S_card_b == <<"c", "a", "r", "d", "_", "b">>
S_syn_delta == <<"s", "y", "n", "_", "d", "e", "l", "t", "a">>
S_n11 == <<"n", "1", "1">>

\* The weight of a row: 1.0, or the n11 field clamped to [1.0, MAX_WEIGHT].
row_weight(reader, n11_col) ==
    IF n11_col < 0 \/ csv_get_field(reader, n11_col).null THEN 1
    ELSE LET weight == strtod(csv_get_field(reader, n11_col).chars)
         IN  IF weight > MAX_WEIGHT THEN MAX_WEIGHT
             ELSE IF weight < 1 THEN 1
             ELSE weight

\* The row loop of traindata_load: [count, data].  oks[l] is the outcome of
\* the realloc, if one is made, of the traindata_add for the l-th line read.
RECURSIVE load_loop(_, _, _, _, _, _)
load_loop(d, reader, f, cols, count, oks) ==
    LET n == csv_next_row(reader, f)
        a_str == csv_get_field(n.reader, cols.card_a)
        b_str == csv_get_field(n.reader, cols.card_b)
        syn_str == csv_get_field(n.reader, cols.syn_delta)
    IN  IF n.rc # 1 THEN [count |-> count, data |-> d]
        ELSE IF a_str.null \/ b_str.null \/ syn_str.null
        THEN load_loop(d, n.reader, f, cols, count, oks)
        ELSE
          LET card_a == strtoull(a_str.chars, 1).val
              card_b == strtoull(b_str.chars, 1).val
              syn_delta == strtod(syn_str.chars)
              weight == row_weight(n.reader, cols.n11)
          IN  IF Gt64(card_a, U(0)) /\ Gt64(card_b, U(0))
              THEN load_loop(traindata_add(d, card_a, card_b, syn_delta, weight,
                                           oks[n.reader.line_number]).data,
                             n.reader, f, cols, count + 1, oks)
              ELSE load_loop(d, n.reader, f, cols, count, oks)

\* traindata_load(&d, path) on the lines f: [ret, data].
traindata_load(d, f, fopen_ok, oks) ==
    LET o == csv_open(fopen_ok)
        h == csv_next_row(o.reader, f)
        cols == [card_a |-> csv_find_column(h.reader, S_card_a),
                 card_b |-> csv_find_column(h.reader, S_card_b),
                 syn_delta |-> csv_find_column(h.reader, S_syn_delta),
                 n11 |-> csv_find_column(h.reader, S_n11)]
    IN  IF o.rc # 0 THEN [ret |-> 0 - 1, data |-> d]
        ELSE IF h.rc # 1 THEN [ret |-> 0 - 1, data |-> d]
        ELSE IF cols.card_a < 0 \/ cols.card_b < 0 \/ cols.syn_delta < 0
        THEN [ret |-> 0 - 1, data |-> d]
        ELSE LET r == load_loop(d, h.reader, f, cols, 0, oks)
             IN  [ret |-> r.count, data |-> r.data]

(***************************************************************************)
(* SpecLoad: a labels file is loaded into a sample array that may already  *)
(* hold a sample, every realloc granted or refused                         *)
(***************************************************************************)
MaxRows == 2

\* f1,f2,...: the fields joined by commas.
RECURSIVE CsvLine(_)
CsvLine(fs) ==
    IF Len(fs) = 0 THEN <<>>
    ELSE IF Len(fs) = 1 THEN fs[1]
    ELSE fs[1] \o <<",">> \o CsvLine(Tail(fs))

LabelHeaders ==
    {CsvLine(<<S_card_a, S_card_b, S_syn_delta, S_n11>>),
     CsvLine(<<S_syn_delta, S_card_b, S_card_a>>) \o <<"\r">>,
     CsvLine(<<S_card_a, S_card_b>>)}

\* Rows: complete ones, one quoted, one with a zero identifier, one with a
\* negative identifier, one too short, one too heavy, an empty line.
LabelRows ==
    {<<"1", ",", "2", ",", "3", ",", "4">>,
     <<"\"", "2", "\"", ",", "1", ",", "-", "1">>,
     <<"0", ",", "2", ",", "1", ",", "0">>,
     <<"-", "1", ",", " ", "7", ",", "2", ",", "2", "0", "0", "0">>,
     <<"1", ",", "2">>,
     <<>>}

LabelFiles ==
    {<<>>} \cup {<<h>> \o rows : h \in LabelHeaders, rows \in SeqsUpTo(LabelRows, MaxRows)}

\* The samples the caller may have added before the load.
LoadSamples ==
    {[card_a |-> a, card_b |-> U(2), syn_delta |-> 0, weight |-> 1] : a \in {ID_ONE, U(2)}}

LoadInit ==
    /\ file \in LabelFiles
    /\ data = traindata_init(TRUE).data
    /\ out = NoOut
    /\ model = NoModel /\ db = NoDb
    /\ ctx = labels_init /\ played = NonePlayed /\ result = NoResult
    /\ map = hashmap_init(0)
    /\ calls = [k \in MapKeys |-> NoCalls]
    /\ touched = {}
    /\ failed = FALSE
    /\ pa = U(0) /\ pb = U(0) /\ pkey = NoKey

\* traindata_add(&data, ...) by the caller, before the load
LoadAdd(s) ==
    /\ out.op = "none"
    /\ data.count = 0
    /\ data' = traindata_add(data, s.card_a, s.card_b, s.syn_delta, s.weight, TRUE).data
    /\ UNCHANGED <<model, file, out, db, mapVars, pairVars, labelVars>>

\* traindata_load(&data, path)
LoadData(fopen_ok, oks) ==
    /\ out.op = "none"
    /\ LET r == traindata_load(data, file, fopen_ok, oks)
       IN  /\ data' = r.data
           /\ out' = [op |-> "traindata_load", ret |-> r.ret, before |-> data,
                      opened |-> fopen_ok, oks |-> oks]
    /\ UNCHANGED <<model, file, db, mapVars, pairVars, labelVars>>

LoadNext ==
    \/ \E s \in LoadSamples : LoadAdd(s)
    \/ \E fopen_ok \in BOOLEAN, oks \in [1..(MaxRows + 1) -> BOOLEAN] :
          LoadData(fopen_ok, oks)

SpecLoad == LoadInit /\ [][LoadNext]_vars

\* C29: on a non-error return r of traindata_load, data->count has grown by
\* exactly r, also when traindata_add fails for some row because the sample
\* array cannot grow.
C29_ReturnsStored ==
    (out.op = "traindata_load" /\ out.ret >= 0) =>
        data.count = out.before.count + out.ret

(***************************************************************************)
(* cards.c : lookup by name                                                *)
(***************************************************************************)
UPPER == <<"A", "B", "C", "D", "E", "F", "G", "H", "I", "J", "K", "L", "M", "N", "O", "P", "Q", "R", "S", "T", "U", "V", "W", "X", "Y", "Z">>
LOWER == <<"a", "b", "c", "d", "e", "f", "g", "h", "i", "j", "k", "l", "m", "n", "o", "p", "q", "r", "s", "t", "u", "v", "w", "x", "y", "z">>
tolower(c) ==
    IF \E i \in 1..Len(UPPER) : UPPER[i] = c
    THEN LOWER[CHOOSE i \in 1..Len(UPPER) : UPPER[i] = c]
    ELSE c

\* 0 when a and b are equal up to the case of their letters, 1 otherwise
\* (the source returns the difference of the first two unequal characters).
strcasecmp_custom(a, b) ==
    IF [i \in 1..Len(a) |-> tolower(a[i])] = [i \in 1..Len(b) |-> tolower(b[i])]
    THEN 0 ELSE 1

\* The index of the first card of that name, or NULL.
RECURSIVE find_by_name_loop(_, _, _)
find_by_name_loop(d, name, i) ==
    IF i > d.count THEN NULL
    ELSE IF strcasecmp_custom(d.cards[i].name, name) = 0 THEN i
    ELSE find_by_name_loop(d, name, i + 1)

carddb_find_by_name(d, name) ==
    IF name.null THEN NULL ELSE find_by_name_loop(d, name.chars, 1)

carddb_get_id(d, name) ==
    LET card == carddb_find_by_name(d, name)
    IN  IF card # NULL THEN d.cards[card].id ELSE U(0)

(***************************************************************************)
(* labels.c : labels_process_file                                          *)
(***************************************************************************)
S_won == <<"w", "o", "n">>
S_user_win == <<"u", "s", "e", "r", "_", "w", "i", "n">>
S_opening_hand == <<"o", "p", "e", "n", "i", "n", "g", "_", "h", "a", "n", "d">>
S_opening_hand_card_ids == <<"o", "p", "e", "n", "i", "n", "g", "_", "h", "a", "n", "d", "_", "c", "a", "r", "d", "_", "i", "d", "s">>
S_drawn == <<"d", "r", "a", "w", "n">>
S_drawn_card_ids == <<"d", "r", "a", "w", "n", "_", "c", "a", "r", "d", "_", "i", "d", "s">>
S_opening_hand_ == <<"o", "p", "e", "n", "i", "n", "g", "_", "h", "a", "n", "d", "_">>
S_drawn_ == <<"d", "r", "a", "w", "n", "_">>

\* strncmp(name, prefix, strlen(prefix)) == 0
HasPrefix(name, prefix) ==
    Len(name) >= Len(prefix) /\ SubSeq(name, 1, Len(prefix)) = prefix

\* Whether the digits from p on hold one that is not 0.
RECURSIVE nonzero_digits(_, _)
nonzero_digits(s, p) ==
    IF ~isdigit(CharAt(s, p)) THEN FALSE
    ELSE s[p] # "0" \/ nonzero_digits(s, p + 1)

\* field_nonzero(value): strtol gives v > 0, or no number is found and the
\* text starts with t, T, y or Y.
field_nonzero(value) ==
    IF value.null THEN FALSE
    ELSE LET s == value.chars
             q == skip_space(s, 1)
             first == IF CharAt(s, q) \in {"+", "-"} THEN q + 1 ELSE q
         IN  IF CharAt(s, q) = NUL THEN FALSE
             ELSE IF isdigit(CharAt(s, first))
             THEN CharAt(s, q) # "-" /\ nonzero_digits(s, first)
             ELSE CharAt(s, q) \in {"t", "T", "y", "Y"}

\* The first header loop: a column [hand, drawn, id] for each field
\* opening_hand_<name> whose name the card database knows.
RECURSIVE hand_cols_loop(_, _, _, _)
hand_cols_loop(reader, d, i, cols) ==
    IF i >= reader.num_fields THEN cols
    ELSE LET name == csv_get_field(reader, i).chars
             card_id == carddb_get_id(d, Str(SubSeq(name, Len(S_opening_hand_) + 1,
                                                    Len(name))))
         IN  IF HasPrefix(name, S_opening_hand_) /\ card_id # U(0)
             THEN hand_cols_loop(reader, d, i + 1,
                                 Append(cols, [hand |-> i, drawn |-> 0 - 1,
                                               id |-> card_id]))
             ELSE hand_cols_loop(reader, d, i + 1, cols)

\* The second header loop: drawn_<name> is attached to the first column of
\* that card.
RECURSIVE drawn_cols_loop(_, _, _, _)
drawn_cols_loop(reader, d, i, cols) ==
    IF i >= reader.num_fields THEN cols
    ELSE LET name == csv_get_field(reader, i).chars
             card_id == carddb_get_id(d, Str(SubSeq(name, Len(S_drawn_) + 1, Len(name))))
             hit == {j \in 1..Len(cols) : cols[j].id = card_id}
         IN  IF HasPrefix(name, S_drawn_) /\ card_id # U(0) /\ hit # {}
             THEN LET j == CHOOSE k \in hit : \A l \in hit : k <= l
                  IN  drawn_cols_loop(reader, d, i + 1, [cols EXCEPT ![j].drawn = i])
             ELSE drawn_cols_loop(reader, d, i + 1, cols)

\* Variant of per_card_loop without the bound on card_count.
RECURSIVE per_card_loop_unbounded(_, _, _, _)
per_card_loop_unbounded(reader, cols, i, present) ==
    IF i > Len(cols) THEN present
    ELSE LET in_hand == /\ cols[i].hand >= 0
                        /\ field_nonzero(csv_get_field(reader, cols[i].hand))
             is_drawn == /\ ~in_hand /\ cols[i].drawn >= 0
                         /\ field_nonzero(csv_get_field(reader, cols[i].drawn))
         IN  per_card_loop_unbounded(reader, cols, i + 1,
                                     IF in_hand \/ is_drawn
                                     THEN Append(present, cols[i].id)
                                     ELSE present)

\* The per-card loop of a row: the identifiers stored in present_cards.
RECURSIVE per_card_loop(_, _, _, _)
per_card_loop(reader, cols, i, present) ==
    IF i > Len(cols) \/ Len(present) >= MAX_GAME_CARDS * 2 THEN present
    ELSE LET in_hand == /\ cols[i].hand >= 0
                        /\ field_nonzero(csv_get_field(reader, cols[i].hand))
             is_drawn == /\ ~in_hand /\ cols[i].drawn >= 0
                         /\ field_nonzero(csv_get_field(reader, cols[i].drawn))
         IN  per_card_loop(reader, cols, i + 1,
                           IF in_hand \/ is_drawn THEN Append(present, cols[i].id)
                           ELSE present)

\* The two lists of a row: the identifiers stored in present_cards.
list_cards(reader, opening_hand_col, drawn_col) ==
    LET hand == IF opening_hand_col >= 0
                THEN csv_parse_list(csv_get_field(reader, opening_hand_col),
                                    MAX_GAME_CARDS)
                ELSE <<>>
        drawn == IF drawn_col >= 0
                 THEN csv_parse_list(csv_get_field(reader, drawn_col), MAX_GAME_CARDS)
                 ELSE <<>>
    IN  hand \o drawn

\* The position of labels_process_file before its call.
FileStart ==
    [pc |-> "start", reader |-> csv_open(FALSE).reader, won_col |-> 0 - 1,
     opening_hand_col |-> 0 - 1, drawn_col |-> 0 - 1, per_card_mode |-> FALSE,
     cols |-> <<>>, games_processed |-> 0, ret |-> 0, calls |-> <<>>]

FileReturn(st, ret) == [st EXCEPT !.pc = "returned", !.ret = ret]

\* labels_process_file up to its row loop, on the lines f with the card
\* database d: the columns found, or the error return.
file_header(st, d, f, fopen_ok, malloc_ok) ==
    LET o == csv_open(fopen_ok)
        h == csv_next_row(o.reader, f)
        won == csv_find_column(h.reader, S_won)
        won_col == IF won < 0 THEN csv_find_column(h.reader, S_user_win) ELSE won
        hand == csv_find_column(h.reader, S_opening_hand)
        opening_hand_col ==
            IF hand < 0 THEN csv_find_column(h.reader, S_opening_hand_card_ids) ELSE hand
        drawn == csv_find_column(h.reader, S_drawn)
        drawn_col == IF drawn < 0 THEN csv_find_column(h.reader, S_drawn_card_ids)
                     ELSE drawn
        cols == drawn_cols_loop(h.reader, d, 0, hand_cols_loop(h.reader, d, 0, <<>>))
    IN  IF o.rc # 0 THEN FileReturn(st, 0 - 1)
        ELSE IF h.rc # 1 THEN FileReturn(st, 0 - 1)
        ELSE IF won_col < 0 THEN FileReturn(st, 0 - 1)
        ELSE IF opening_hand_col < 0 \/ drawn_col < 0
        THEN IF ~malloc_ok THEN FileReturn(st, 0 - 1)
             ELSE [st EXCEPT !.pc = "rows", !.reader = h.reader, !.won_col = won_col,
                             !.opening_hand_col = opening_hand_col,
                             !.drawn_col = drawn_col,
                             !.cols = cols, !.per_card_mode = Len(cols) > 0]
        ELSE [st EXCEPT !.pc = "rows", !.reader = h.reader, !.won_col = won_col,
                        !.opening_hand_col = opening_hand_col, !.drawn_col = drawn_col]

\* Variant of file_row that ends the run at a row without the outcome field.
file_row_stops_at_missing(st, c, f) ==
    LET n == csv_next_row(st.reader, f)
        won_str == csv_get_field(n.reader, st.won_col)
        win == IF CharAt(won_str.chars, 1) \in {"1", "t", "T"} THEN 1 ELSE 0
        present == IF st.per_card_mode THEN per_card_loop(n.reader, st.cols, 1, <<>>)
                   ELSE list_cards(n.reader, st.opening_hand_col, st.drawn_col)
    IN  IF n.rc # 1 \/ won_str.null
        THEN [st |-> FileReturn(st, st.games_processed), ctx |-> c]
        ELSE [st |-> [st EXCEPT !.reader = n.reader,
                                !.games_processed = @ + 1,
                                !.calls = Append(@, [cards |-> present, win |-> win])],
              ctx |-> labels_process_game(c, Cards(present), Len(present), win, TRUE)]

\* One pass of the row loop of labels_process_file, the return at the end of
\* the file included: [st, ctx].
file_row(st, c, f) ==
    LET n == csv_next_row(st.reader, f)
        won_str == csv_get_field(n.reader, st.won_col)
        win == IF CharAt(won_str.chars, 1) \in {"1", "t", "T"} THEN 1 ELSE 0
        present == IF st.per_card_mode THEN per_card_loop(n.reader, st.cols, 1, <<>>)
                   ELSE list_cards(n.reader, st.opening_hand_col, st.drawn_col)
    IN  IF n.rc # 1 THEN [st |-> FileReturn(st, st.games_processed), ctx |-> c]
        ELSE IF won_str.null THEN [st |-> [st EXCEPT !.reader = n.reader], ctx |-> c]
        ELSE [st |-> [st EXCEPT !.reader = n.reader,
                                !.games_processed = @ + 1,
                                !.calls = Append(@, [cards |-> present, win |-> win])],
              ctx |-> labels_process_game(c, Cards(present), Len(present), win, TRUE)]

(***************************************************************************)
(* SpecFile: labels_process_file reads a game file row by row into a fresh *)
(* context                                                                 *)
(***************************************************************************)
GameHeaders ==
    {CsvLine(<<S_won, S_opening_hand, S_drawn>>),
     CsvLine(<<S_user_win, S_drawn_card_ids, S_opening_hand_card_ids>>),
     CsvLine(<<S_opening_hand_ \o <<"a">>, S_drawn_ \o <<"a">>,
               S_opening_hand_ \o <<"B">>, S_won>>) \o <<"\r">>,
     CsvLine(<<S_opening_hand_ \o <<"b">>, S_won>>),
     CsvLine(<<S_won, S_opening_hand_ \o <<"a">>, S_opening_hand_ \o <<"A">>,
               S_opening_hand_ \o <<"B">>, S_opening_hand_ \o <<"b">>,
               S_opening_hand_ \o <<"a">>>>),
     CsvLine(<<S_opening_hand, S_drawn>>)}

\* Rows: lists in brackets and in quotes, flags of per-card columns, a row
\* that ends in a comma, an empty line, lists of three cards, five flags set,
\* a row with an empty first field.
GameRows ==
    {<<"1", ",", "[", "1", " ", "2", "]", ",", "3">>,
     <<"0", ",", "\"", "[", "2", ",", "1", "]", "\"", ",", "\"", "1", ",", "9", "4", "4", "\"">>,
     <<"t", ",", "0", ",", "y", ",", "1">>,
     <<"1", ",", "1", ",", "1", ",">>,
     <<>>,
     <<"1", ",", "[", "1", " ", "2", " ", "9", "4", "4", "]", ",", "3", " ", "2", " ", "1">>,
     <<"T", ",", "1", ",", "y", ",", "1", ",", "1", ",", "1">>,
     <<",", "2">>,
     <<" ", "1", ",", "-", "1", ",", "0", ",", "T">>}

GameFiles ==
    {<<>>} \cup {<<h>> \o rows : h \in GameHeaders, rows \in SeqsUpTo(GameRows, MaxRows)}

\* The card databases labels_init may have been given: none, or the cards
\* "a" and "B".
GameDbs ==
    {NoDb,
     carddb_add(carddb_add(carddb_init(TRUE).db, ID_ONE, Str(<<"a">>), TRUE).db,
                U(2), Str(<<"B">>), TRUE).db}

FileInit ==
    /\ file \in GameFiles
    /\ db \in GameDbs
    /\ ctx = labels_init
    /\ out = FileStart
    /\ model = NoModel /\ data = NoData
    /\ played = NonePlayed /\ result = NoResult
    /\ map = hashmap_init(0)
    /\ calls = [k \in MapKeys |-> NoCalls]
    /\ touched = {}
    /\ failed = FALSE
    /\ pa = U(0) /\ pb = U(0) /\ pkey = NoKey

\* labels_process_file(&ctx, path) from its call to its row loop
FileOpen(fopen_ok, malloc_ok) ==
    /\ out.pc = "start"
    /\ out' = file_header(out, db, file, fopen_ok, malloc_ok)
    /\ UNCHANGED <<model, file, dataVars, mapVars, pairVars, labelVars>>

\* one pass of the row loop, or the return at the end of the file
FileRow ==
    /\ out.pc = "rows"
    /\ LET r == file_row(out, ctx, file)
       IN  out' = r.st /\ ctx' = r.ctx
    /\ UNCHANGED <<model, file, dataVars, mapVars, pairVars, played, result>>

FileNext ==
    \/ \E fopen_ok \in BOOLEAN, malloc_ok \in BOOLEAN : FileOpen(fopen_ok, malloc_ok)
    \/ FileRow

SpecFile == FileInit /\ [][FileNext]_vars

\* Whether line l of the file, as the reader splits it, has the outcome field.
HasOutcome(f, l, won_col) == Len(parse_csv_line(strip_eol(f[l]))) > won_col

\* The data rows with an outcome field among the lines 2..last.
RowsApplied(f, last, won_col) ==
    {l \in 2..last : l <= Len(f) /\ HasOutcome(f, l, won_col)}

\* The calls logged, as a log of games.
CallLog(cs) ==
    [i \in 1..Len(cs) |->
        [game |-> [cards |-> Cards(cs[i].cards), count |-> Len(cs[i].cards)],
         win |-> cs[i].win]]

\* C24: labels_process_file on a fresh context applies every data row that
\* has an outcome field with exactly one labels_process_game call, skips
\* every row without it leaving the context unchanged and the run going, and
\* returns the number of rows applied, which is total_games afterwards.
C24_RowsApplied ==
    /\ out.pc = "rows" =>
          /\ out.games_processed
               = Cardinality(RowsApplied(file, out.reader.line_number, out.won_col))
          /\ Len(out.calls) = out.games_processed
          /\ ctx = game_loop(labels_init, CallLog(out.calls), 1)
    /\ (out.pc = "returned" /\ out.ret >= 0) =>
          /\ out.reader.line_number = Len(file)
          /\ out.ret = Cardinality(RowsApplied(file, Len(file), out.won_col))
          /\ Len(out.calls) = out.ret
          /\ ctx = game_loop(labels_init, CallLog(out.calls), 1)
          /\ ctx.total_games = out.ret

\* A file whose first row lacks the outcome field and whose second row has
\* it: the run returns 1 with one game counted.
C24_Witness ==
    /\ out.pc = "returned" /\ out.ret = 1
    /\ Len(file) = 3
    /\ ~HasOutcome(file, 2, out.won_col) /\ file[2] # <<>>
    /\ HasOutcome(file, 3, out.won_col)
    /\ ctx.total_games = 1 /\ hashmap_size(ctx.card_stats) = 2

(***************************************************************************)
(* SpecIterate: the smoothed probabilities of the records emitted          *)
(***************************************************************************)
\* record->p11 .. record->p00 of a record whose buckets are written.
record_probs(r) ==
    [p11 |-> labels_smooth_prob(r.w11, r.n11),
     p10 |-> labels_smooth_prob(r.w10, r.n10),
     p01 |-> labels_smooth_prob(r.w01, r.n01),
     p00 |-> labels_smooth_prob(r.w00, r.n00)]

\* Wins within games in each of the four buckets.
WinsWithinGames(r) ==
    r.w11 <= r.n11 /\ r.w10 <= r.n10 /\ r.w01 <= r.n01 /\ r.w00 <= r.n00

StrictlyInside(p) == QLess(Q(0, 1), p) /\ QLess(p, Q(1, 1))

\* Counts no run of games leaves: card a was seen MIN_BOTH_PRESENT times and
\* won each time, the pair as often with one win fewer.
UnplayedContext ==
    HeldContext(ID_ONE, U(2), MIN_BOTH_PRESENT, MIN_BOTH_PRESENT,
                [n |-> MIN_BOTH_PRESENT, w |-> MIN_BOTH_PRESENT],
                [n |-> MIN_BOTH_PRESENT, w |-> MIN_BOTH_PRESENT - 1],
                [n |-> MIN_BOTH_PRESENT, w |-> MIN_BOTH_PRESENT - 1])

\* On those counts labels_compute_pair emits a record with w10 > n10, p10 = 1.
UncheckedWins ==
    LET r == labels_compute_pair(UnplayedContext, ID_ONE, U(2))
    IN  /\ r.rc = 0
        /\ r.record.w10 > r.record.n10
        /\ QEqual(record_probs(r.record).p10, Q(1, 1))

\* C31: in a context reached through labels_process_game alone (32-bit
\* identifiers) every record labels_compute_pair emits has w <= n in each of
\* its four buckets and p11, p10, p01, p00 strictly between 0 and 1; the
\* checks of labels_compute_pair do not give this for arbitrary counts: it
\* emits a record with w10 > n10 and p10 = 1 for counts that pass them.
C31_BucketWinsWithinGames ==
    /\ \A a \in Ids32, b \in Ids32 :
          LET r == labels_compute_pair(ctx, a, b)
              p == record_probs(r.record)
          IN  r.rc = 0 =>
                /\ WinsWithinGames(r.record)
                /\ StrictlyInside(p.p11) /\ StrictlyInside(p.p10)
                /\ StrictlyInside(p.p01) /\ StrictlyInside(p.p00)
    /\ UncheckedWins

\* The pair won once and lost once, a third game without cards won: a record
\* with a won game in its n00 bucket is emitted.
C31_Witness ==
    /\ ctx.total_games = 3 /\ ctx.total_wins = 2
    /\ LET r == labels_compute_pair(ctx, ID_ONE, U(2))
       IN  /\ r.rc = 0
           /\ r.record.n11 = 2 /\ r.record.w11 = 1
           /\ r.record.n00 = 1 /\ r.record.w00 = 1
           /\ QEqual(record_probs(r.record).p00, Q(2, 3))

(***************************************************************************)
(* SpecIterate: the pair keys of 32-bit identifiers                        *)
(***************************************************************************)
\* Identifiers below 2^32: 0, the identifiers of the games, 2^16, 2^32-2.
CodecIds32 == Ids32 \cup {U(0), <<0, 0, 1, 0>>, <<0, 0, 65535, 65534>>}
\* 2^32+2 and 2^33-1.
ID_TWO_HIGH == <<0, 1, 0, 2>>
ID_TWO_HIGH_MAX == <<0, 1, 65535, 65535>>

\* pair_key(pair_decode(k))
Recoded(k) == pair_key(pair_decode(k).a, pair_decode(k).b)

\* Two unordered pairs of distinct identifiers below 2^32 have the same key
\* exactly if they are the same pair.
Injective32 ==
    \A a \in CodecIds32, b \in CodecIds32, c \in CodecIds32, d \in CodecIds32 :
        (a # b /\ c # d) => ((pair_key(a, b) = pair_key(c, d)) <=> ({a, b} = {c, d}))

NoSentinel32 ==
    \A a \in CodecIds32, b \in CodecIds32 : a # b => ~IsSentinel(pair_key(a, b))

\* Above 2^32: two pairs with one key, a pair with the key HASH_EMPTY_KEY, a
\* key that is not the key of its decoded pair.
FailsAbove32 ==
    /\ pair_key(ID_ONE_HIGH, ID_TWO_HIGH) = pair_key(ID_ONE, U(2))
    /\ pair_key(ID_LOW_MAX, ID_TWO_HIGH_MAX) = HASH_EMPTY_KEY
    /\ Recoded(pair_key(ID_ONE_HIGH, U(2))) # pair_key(ID_ONE_HIGH, U(2))

\* C32: for identifiers below 2^32, pair_key is injective on unordered pairs
\* of distinct identifiers and never gives HASH_EMPTY_KEY or HASH_TOMBSTONE
\* for them, and every key k that labels_process_game stores in pair_stats
\* has pair_key(pair_decode(k)) = k, so that the lookup of the decoded pair
\* finds the slot the key is in.  Each of the three fails for some
\* identifiers >= 2^32.
C32_PairKeys32 ==
    /\ Injective32
    /\ NoSentinel32
    /\ \A i \in DOMAIN ctx.pair_stats.entries :
          LET k == ctx.pair_stats.entries[i].key
          IN  /\ Recoded(k) = k
              /\ pair_decode(k).a # pair_decode(k).b
              /\ hashmap_get(ctx.pair_stats, Recoded(k)) = i
    /\ FailsAbove32

\* Three pair keys stored, the one of (2, 2^32-1) among them.
C32_Witness ==
    /\ hashmap_size(ctx.pair_stats) = 3
    /\ hashmap_get(ctx.pair_stats, pair_key(ID_LOW_MAX, U(2))) # NULL
    /\ pair_decode(pair_key(ID_LOW_MAX, U(2))) = [a |-> U(2), b |-> ID_LOW_MAX]

(***************************************************************************)
(* SpecFile: the fixed buffers present_cards and unique                    *)
(***************************************************************************)
\* The identifiers the rows of the runs can name.
FileIds == {U(0), ID_ONE, U(2), U(3), ID_SAME_SLOT}

\* The number of calls logged whose first MAX_GAME_CARDS distinct
\* identifiers include id.
GamesRetaining(cs, id) ==
    Cardinality({i \in 1..Len(cs) : id \in Retained(CallLog(cs)[i].game)})

\* C33: in labels_process_file card_count never exceeds 2 * MAX_GAME_CARDS,
\* the size of present_cards, at a write or at the call of
\* labels_process_game, and in labels_process_game unique_count never
\* exceeds MAX_GAME_CARDS; the distinct ids of a game beyond the first
\* MAX_GAME_CARDS are dropped: they are not counted, and the row counts as
\* processed like any other.
C33_BuffersHold ==
    out.pc \in {"rows", "returned"} =>
        /\ \A i \in 1..Len(out.calls) :
              /\ Len(out.calls[i].cards) <= 2 * MAX_GAME_CARDS
              /\ Len(dedup_loop(out.calls[i].cards, Len(out.calls[i].cards), 0, <<>>))
                   <= MAX_GAME_CARDS
        /\ \A id \in FileIds :
              Lookup(ctx.card_stats, id)
                = IF GamesRetaining(out.calls, id) = 0 THEN NoEntry
                  ELSE [n |-> GamesRetaining(out.calls, id),
                        w |-> Cardinality({i \in 1..Len(out.calls) :
                                 /\ id \in Retained(CallLog(out.calls)[i].game)
                                 /\ out.calls[i].win # 0})]
        /\ hashmap_size(ctx.card_stats)
             = Cardinality({id \in FileIds : GamesRetaining(out.calls, id) > 0})
        /\ out.games_processed = Len(out.calls)

\* A row of two lists of three: present_cards is filled to its last element
\* with three distinct ids, and the third one is not counted.
C33_Witness ==
    /\ out.pc = "returned" /\ out.ret = 1
    /\ Len(out.calls[1].cards) = 2 * MAX_GAME_CARDS
    /\ Cardinality({out.calls[1].cards[p] : p \in 1..Len(out.calls[1].cards)}) = 3
    /\ hashmap_size(ctx.card_stats) = MAX_GAME_CARDS
    /\ Lookup(ctx.card_stats, U(3)) = NoEntry

(***************************************************************************)
(* SpecModel: releasing a model after a failing model_load                 *)
(***************************************************************************)
\* model_free(&m): the model left, and what the call of free was given.
\* A pointer that was never set is read uninitialised; a pointer to a
\* released array is released a second time.
model_free(m) ==
    IF m.cards_ptr = "null" THEN [model |-> m, free |-> "none"]
    ELSE [model |-> [m EXCEPT !.cards_ptr = "null", !.cards = <<>>, !.num_cards = 0],
          free |-> CASE m.cards_ptr = "live" -> "array"
                     [] m.cards_ptr = "freed" -> "released array"
                     [] OTHER -> "uninitialised pointer"]

\* C34: on every failing return of model_load, model->cards does not point
\* to memory that model_load has released, so that a later model_free does
\* not release it a second time; this includes the failures after the
\* allocation of the card array (truncated card record, missing global
\* bias).
C34_SafeToRelease ==
    (out.op = "load" /\ out.rc # 0) =>
        /\ out.loaded.cards_ptr # "freed"
        /\ model_free(out.loaded).free # "released array"

(***************************************************************************)
(* SpecMap: an empty slot always remains, and the probe loops end          *)
(***************************************************************************)
\* The slots holding HASH_EMPTY_KEY.
EmptySlots(m) == {i \in 0..(m.capacity - 1) : KeyAt(m, i) = HASH_EMPTY_KEY}

\* The slots holding a key that is neither sentinel.
LiveSlots(m) == {i \in DOMAIN m.entries : ~IsSentinel(m.entries[i].key)}

\* The number of slots a probe for key visits before it stops at a slot
\* holding key or HASH_EMPTY_KEY; capacity when it visits all without
\* stopping.
RECURSIVE ProbeStop(_, _, _)
ProbeStop(m, key, i) ==
    IF i >= m.capacity THEN m.capacity
    ELSE LET probe == BitAnd(BitAnd(hash_u64(key), m.capacity - 1) + i, m.capacity - 1)
         IN  IF KeyAt(m, probe) = key \/ KeyAt(m, probe) = HASH_EMPTY_KEY THEN i
             ELSE ProbeStop(m, key, i + 1)

\* The table the reinsertion loop of a grow of m works on when it comes to
\* slot i of the old array: the new table after the slots below i.
ReinsertedBefore(m, i) ==
    hashmap_resize([m EXCEPT !.entries = [j \in {s \in DOMAIN m.entries : s < i} |->
                                            m.entries[j]]], TRUE).map

\* C35: every table reached through hashmap_init, hashmap_put and
\* hashmap_increment has size < capacity and an empty slot, so the probe
\* loops end at a slot holding the key or HASH_EMPTY_KEY and the final
\* return NULL of hashmap_put is never reached; hashmap_put returns NULL
\* only for a sentinel key or a failed allocation of a grow; the puts of the
\* reinsertion of a grow (the table being over its load) never return NULL
\* and never start a nested resize.
C35_EmptySlotRemains ==
    /\ map.size < map.capacity
    /\ EmptySlots(map) # {}
    /\ \A k \in MapKeys :
          /\ ProbeStop(map, k, 0) < map.capacity
          /\ hashmap_put(map, k, TRUE).entry # NULL
          /\ put_probe(map, k, BitAnd(hash_u64(k), map.capacity - 1), 0, SIZE_MAX).entry
               # NULL
          /\ hashmap_put(map, k, FALSE).entry = NULL <=> NeedsResize(map)
    /\ NeedsResize(map) =>
          \A i \in LiveSlots(map) :
             LET new == ReinsertedBefore(map, i)
             IN  /\ ~NeedsResize(new)
                 /\ new.size < new.capacity
                 /\ hashmap_put(new, map.entries[i].key, TRUE).entry # NULL
                 /\ hashmap_put(new, map.entries[i].key, FALSE).entry # NULL

\* The table has grown to 32 slots by reinserting twelve keys, a grow having
\* failed before, and holds thirteen.
C35_Witness ==
    /\ map.capacity = 32 /\ map.size = 13 /\ failed
    /\ Cardinality(LiveSlots(map)) = 13

(***************************************************************************)
(* SpecMap: the shape of the table                                         *)
(***************************************************************************)
IsPowerOfTwo(n) == n > 0 /\ BitAnd(n, n - 1) = 0

\* The slots of m that hold key.
SlotsOf(m, key) == {i \in DOMAIN m.entries : m.entries[i].key = key}

\* C36: capacity is a power of two and at least 16; no key is in more than
\* one slot; size is the number of live slots; hashmap_iterate visits each
\* live key exactly once, hashmap_size entries in all.
C36_TableShape ==
    /\ IsPowerOfTwo(map.capacity) /\ map.capacity >= 16
    /\ DOMAIN map.entries \subseteq 0..(map.capacity - 1)
    /\ \A k \in AllKeys : Cardinality(SlotsOf(map, k)) <= 1
    /\ hashmap_size(map) = Cardinality(LiveSlots(map))
    /\ Cardinality(hashmap_iterate(map)) = hashmap_size(map)
    /\ {e.key : e \in hashmap_iterate(map)} = {map.entries[i].key : i \in LiveSlots(map)}
    /\ \A k \in MapKeys :
          Cardinality({e \in hashmap_iterate(map) : e.key = k})
            = (IF hashmap_get(map, k) # NULL THEN 1 ELSE 0)

\* A table that started at 32 slots holds ten keys, two of them sharing a
\* home slot, one of them counted twice.
C36_Witness ==
    /\ map.capacity = 32 /\ hashmap_size(map) = 10
    /\ \E e \in hashmap_iterate(map) : e.n = 2
    /\ \E i \in LiveSlots(map) :
          i # BitAnd(hash_u64(map.entries[i].key), map.capacity - 1)

(***************************************************************************)
(* SpecMap: no tombstones                                                  *)
(***************************************************************************)
\* C37: no operation writes a tombstone: in every reachable state tombstones
\* is 0 and no slot holds HASH_TOMBSTONE; the grow condition is therefore
\* size * 10 > capacity * 7, and the tombstone-reuse branch of hashmap_put
\* is never taken: a new key goes into the empty slot its probe stops at.
C37_NoTombstones ==
    /\ map.tombstones = 0
    /\ \A i \in DOMAIN map.entries : map.entries[i].key # HASH_TOMBSTONE
    /\ NeedsResize(map) <=> map.size * 10 > map.capacity * 7
    /\ \A k \in AllKeys, ok \in AllocOutcomes :
          LET r == hashmap_put(map, k, ok)
          IN  /\ r.map.tombstones = 0
              /\ \A i \in DOMAIN r.map.entries : r.map.entries[i].key # HASH_TOMBSTONE
              /\ (r.entry # NULL /\ k \in MapKeys /\ ~NeedsResize(map)
                    /\ hashmap_get(map, k) = NULL) =>
                     /\ r.entry = BitAnd(BitAnd(hash_u64(k), map.capacity - 1)
                                           + ProbeStop(map, k, 0), map.capacity - 1)
                     /\ KeyAt(map, r.entry) = HASH_EMPTY_KEY

\* Twelve keys in sixteen slots: the next put of a key grows the table, and
\* one key lies two slots from its home.
C37_Witness ==
    /\ map.capacity = 16 /\ map.size = 12 /\ map.tombstones = 0
    /\ NeedsResize(map)
    /\ \E i \in LiveSlots(map) :
          BitAnd(i - BitAnd(hash_u64(map.entries[i].key), map.capacity - 1),
                 map.capacity - 1) >= 2

(***************************************************************************)
(* SpecCounts: the bucket-sum re-check                                     *)
(***************************************************************************)
\* The checks of labels_compute_pair that precede the record's writes, read
\* off the counts the context holds for (card_a, card_b).
PassesChecks(c, card_a, card_b) ==
    LET a == Lookup(c.card_stats, card_a)
        b == Lookup(c.card_stats, card_b)
        ab == Lookup(c.pair_stats, pair_key(card_a, card_b))
        d == Derived(c, card_a, card_b)
    IN  /\ a # NoEntry /\ b # NoEntry /\ ab # NoEntry
        /\ ab.n >= MIN_BOTH_PRESENT
        /\ c.total_wins <= c.total_games /\ a.w <= a.n /\ b.w <= b.n /\ ab.w <= ab.n
        /\ \A x \in {d.n10, d.n01, d.n00, d.w10, d.w01, d.w00} : x >= 0

\* C38: the bucket-sum re-check of labels_compute_pair never fails: for
\* counts that pass the negative-bucket check the four n buckets sum to
\* total_games and the four w buckets to total_wins, the call returns 0, and
\* no failing call leaves a record written.
C38_SumCheckNeverFails ==
    result.called =>
        /\ result.rc # 0 => ~result.record.written
        /\ PassesChecks(ctx, result.card_a, result.card_b) =>
              LET r == result.record
              IN  /\ result.rc = 0
                  /\ r.n11 + r.n10 + r.n01 + r.n00 = ctx.total_games
                  /\ r.w11 + r.w10 + r.w01 + r.w00 = ctx.total_wins

\* Held counts pass every check with a win in the bucket of both cards and
\* a win in the bucket of neither, and the call returned 0 with the total
\* of games at its largest.
C38_Witness ==
    /\ result.called /\ result.rc = 0
    /\ PassesChecks(ctx, result.card_a, result.card_b)
    /\ result.record.n00 >= 1 /\ result.record.n11 >= MIN_BOTH_PRESENT
    /\ result.record.w00 >= 1 /\ result.record.w11 >= 1
    /\ ctx.total_games = MaxCount

=============================================================================
